---- MODULE Spec2Model ----
(***************************************************************************)
(* CalendarRAG-Agent: a model of the calendar tool server's create_event   *)
(* handler (src/mcp/google_calendar_server.py) and of the backend's        *)
(* /query and /create endpoints with their intent classifier, ambiguity    *)
(* detector and slot extractor (src/backend/main.py, src/backend/agent.py),*)
(* of the grounding evaluator (src/backend/evaluator.py) and of the        *)
(* knowledge base index with its chunker and retrievers                    *)
(* (src/backend/rag.py).                                                   *)
(*                                                                         *)
(* Time is counted in ticks; TicksPerHour ticks make one hour.  A wall     *)
(* clock reading with its UTC offset is a record [l, off, ok]; the instant *)
(* it denotes is l - off.  Text is a string; SubSeq, Len and \o read it.    *)
(***************************************************************************)
EXTENDS Integers, Sequences, FiniteSets, TLC

VARIABLES
    \* ---- the calendar tool server and the provider behind it
    calendar,     \* the provider's busy intervals [s, e] (instants)
    req,          \* request id -> CreateEventInput payload
    pc,           \* request id -> position of its handler
    fbCall,       \* request id -> the first freebusy call and its answer
    probeIdx,     \* request id -> loop variable i of the suggestion loop
    probes,       \* request id -> the probe calls made, in order
    suggestions,  \* request id -> suggestions collected so far
    insertCalls,  \* request id -> number of events().insert calls made
    mcpResp,      \* request id -> what the handler returned or raised
    \* ---- the backend
    today,        \* date.today()
    apiReq,       \* the request: an endpoint with its query or payload
    calls,        \* the call_tool calls the handler made, in order
    resp,         \* the handler's response
    \* ---- the results of agent.py's functions and of the slot parsing
    intent,       \* what classify_intent returned, once called
    ambiguity,    \* what detect_ambiguity returned, once called
    slots,        \* the creation slots parsed from the query, once parsed
    \* ---- parse_time and evaluate_response, called on their own
    time_token,   \* a clock token, with the parts it was written from
    parsed,       \* what parse_time returned for it, once called
    evalArgs,     \* the arguments of an evaluate_response call
    evalResult,   \* what evaluate_response returned, once called
    composeArgs,  \* the arguments and the environment of a compose_answer_with_llm call
    composed,     \* how that call ended, once made
    \* ---- chunk_text, called on its own
    chunkArgs,    \* text (with the words it was written from), chunk_size, overlap
    chunks,       \* what chunk_text returned, once called
    loop,         \* the while loop of chunk_text, followed one iteration at a time
    \* ---- src/backend/rag.py: the knowledge base index and the retrievers
    kbDir,        \* the knowledge_base directory: its files, if it exists
    cacheFiles,   \* the rag_cache directory: the metadata and the embeddings file
    ragPc,        \* "import" before the module body has run, "ready" after,
                  \* "crashed" where the process died in it
    starts,       \* how many times the process has been started
    saveLog,      \* which start wrote each cache file; was the last save cut short
    documents,    \* rag.documents
    kb_chunks,    \* rag.kb_chunks
    kb_chunk_embeddings,  \* rag.kb_chunk_embeddings, one row per embedded text
    ragCall,      \* the last retrieve_kb / retrieve_events call
    hits,         \* what that call returned
    \* ---- the chat front end (src/frontend/app.py), one step per script run
    pending_create,  \* st.session_state.memory["pending_create"]
    messages,     \* st.session_state.messages: role and result of each entry
    form,         \* what the user typed into the sidebar fields, if anything
    lastRun       \* what the last script run was and what the backend answered

mcpVars == <<calendar, req, pc, fbCall, probeIdx, probes, suggestions,
             insertCalls, mcpResp>>
apiVars == <<today, apiReq, calls, resp>>
fnVars == <<intent, ambiguity, slots>>
libVars == <<time_token, parsed, evalArgs, evalResult, composeArgs, composed>>
chunkVars == <<chunkArgs, chunks, loop>>
ragVars == <<kbDir, cacheFiles, ragPc, starts, saveLog, documents, kb_chunks, kb_chunk_embeddings,
             ragCall, hits>>
chatVars == <<pending_create, messages, form, lastRun>>
vars == <<mcpVars, apiVars, fnVars, libVars, chunkVars, ragVars, chatVars>>

(***************************************************************************)
(* Bounds of the model.                                                    *)
(***************************************************************************)
TicksPerHour == 2
MaxStart == 2
MaxLen == 3

(***************************************************************************)
(* Program constants.                                                      *)
(***************************************************************************)
MaxProbes == 5
MaxSuggestions == 3

Max(a, b) == IF a >= b THEN a ELSE b
Min(a, b) == IF a <= b THEN a ELSE b

(***************************************************************************)
(* Date-times.                                                             *)
(***************************************************************************)
\* TIMEZONE = Asia/Kolkata, UTC+05:30
TzOffset == (11 * TicksPerHour) \div 2

NoEnd == -1000

Malformed == [l |-> 0, off |-> 0, ok |-> FALSE]

\* datetime.replace(tzinfo=tz)
Aware(l) == [l |-> l, off |-> TzOffset, ok |-> TRUE]

\* the instant an RFC3339 reading denotes, as the provider reads it
Instant(dt) == dt.l - dt.off

\* datetime.astimezone(UTC) followed by strftime(...Z)
AsUtc(dt) == [l |-> dt.l - dt.off, off |-> 0, ok |-> dt.ok]

\* datetime + timedelta
PlusTicks(dt, n) == [dt EXCEPT !.l = @ + n]

(***************************************************************************)
(* CreateEventInput payloads: the date and the two clock times either      *)
(* parse (valid) to local ticks, or do not.  An empty end_time is NoEnd.   *)
(***************************************************************************)
Payloads ==
    UNION { { [valid |-> TRUE, start |-> s, end |-> e] :
                e \in {NoEnd} \cup {s + d : d \in ({-1} \cup (1..MaxLen))} } :
            s \in 0..MaxStart }
    \cup { [valid |-> FALSE, start |-> 0, end |-> NoEnd] }

\* lines 104-111: start_naive / end_naive
EndNaive(p) == IF p.end = NoEnd THEN p.start + TicksPerHour ELSE p.end

\* lines 113-131: the event body's start and end
EventStart(p) == IF p.valid THEN Aware(p.start) ELSE Malformed
EventEnd(p) == IF p.valid THEN Aware(EndNaive(p)) ELSE Malformed

\* lines 146-162: the window of the availability query
FbTimeMin(p) == IF p.valid THEN AsUtc(Aware(p.start)) ELSE EventStart(p)
FbTimeMax_DefaultHour(p) ==
    IF p.valid THEN AsUtc(Aware(p.start + TicksPerHour)) ELSE EventEnd(p)
FbTimeMax(p) == IF p.valid THEN AsUtc(Aware(EndNaive(p))) ELSE EventEnd(p)

(***************************************************************************)
(* The calendar provider.                                                  *)
(***************************************************************************)
Ev(a, b) == [s |-> a - TzOffset, e |-> b - TzOffset]

CandEvents == { Ev(-1, TicksPerHour),
                Ev(MaxStart + 1, MaxStart + 1 + TicksPerHour),
                Ev(2 * TicksPerHour + 1, 5 * TicksPerHour) }

\* two intervals overlap; touching endpoints do not count
Overlaps(a, b) == a.s < b.e /\ b.s < a.e

ProviderError == [status |-> "error", busy |-> {}]

\* freebusy().query: the busy intervals meeting [timeMin, timeMax], clipped
FreeBusy(cal, tmin, tmax) ==
    IF ~tmin.ok \/ ~tmax.ok THEN ProviderError
    ELSE IF Instant(tmin) >= Instant(tmax) THEN ProviderError
    ELSE LET w == [s |-> Instant(tmin), e |-> Instant(tmax)]
         IN [status |-> "ok",
             busy |-> { [s |-> Max(b.s, w.s), e |-> Min(b.e, w.e)] :
                          b \in {c \in cal : Overlaps(c, w)} }]

(***************************************************************************)
(* create_event, one provider call per step.                               *)
(***************************************************************************)
HasConflict_Never(busy) == FALSE
\* line 180: if busy
HasConflict(busy) == busy /= {}

CandWindow_Ticks(p, i) ==
    LET base == EventStart(p)
        cs == PlusTicks(base, i)
    IN [start |-> cs, end |-> PlusTicks(cs, EventEnd(p).l - EventStart(p).l)]
\* lines 193-196: cand_start, cand_end of probe i
CandWindow(p, i) ==
    LET base == EventStart(p)
        cs == PlusTicks(base, i * TicksPerHour)
    IN [start |-> cs, end |-> PlusTicks(cs, EventEnd(p).l - EventStart(p).l)]

CandBusy_Optimistic(res) == IF res.status = "ok" THEN res.busy ELSE {}
\* lines 198-202: cand_busy; an exception counts as busy
CandBusy(res) == IF res.status = "ok" THEN res.busy ELSE {1}

LoopDone_NoBreak(sugg, i) == i >= MaxProbes
\* lines 192, 207-208: the loop ends after probe 5 or at 3 suggestions
LoopDone(sugg, i) == Len(sugg) >= MaxSuggestions \/ i >= MaxProbes

NoCall == [made |-> FALSE, tmin |-> Malformed, tmax |-> Malformed,
           res |-> ProviderError, cal |-> {}]

InitMcpWith(ids) ==
    /\ calendar \in SUBSET CandEvents
    /\ req \in [ids -> Payloads]
    /\ pc = [r \in ids |-> "received"]
    /\ fbCall = [r \in ids |-> NoCall]
    /\ probeIdx = [r \in ids |-> 0]
    /\ probes = [r \in ids |-> <<>>]
    /\ suggestions = [r \in ids |-> <<>>]
    /\ insertCalls = [r \in ids |-> 0]
    /\ mcpResp = [r \in ids |-> [kind |-> "none"]]

\* lines 30-42, 142: _get_service() fails
McpNoService(r) ==
    /\ pc[r] = "received"
    /\ pc' = [pc EXCEPT ![r] = "done"]
    /\ mcpResp' = [mcpResp EXCEPT ![r] = [kind |-> "error", code |-> 500]]
    /\ UNCHANGED <<calendar, req, fbCall, probeIdx, probes, suggestions, insertCalls>>

\* lines 97-215 up to the first probe: the availability query and its branch
McpFreeBusy(r) ==
    /\ pc[r] = "received"
    /\ \E fails \in BOOLEAN :
         LET p == req[r]
             tmin == FbTimeMin(p)
             tmax == FbTimeMax(p)
             res == IF fails THEN ProviderError ELSE FreeBusy(calendar, tmin, tmax)
         IN /\ fbCall' = [fbCall EXCEPT ![r] =
                    [made |-> TRUE, tmin |-> tmin, tmax |-> tmax,
                     res |-> res, cal |-> calendar]]
            /\ IF res.status = "error"
               THEN /\ pc' = [pc EXCEPT ![r] = "done"]
                    /\ mcpResp' = [mcpResp EXCEPT ![r] = [kind |-> "error", code |-> 400]]
                    /\ UNCHANGED probeIdx
               ELSE IF HasConflict(res.busy)
               THEN IF EventStart(p).ok
                    THEN /\ pc' = [pc EXCEPT ![r] = "probing"]
                         /\ probeIdx' = [probeIdx EXCEPT ![r] = 1]
                         /\ UNCHANGED mcpResp
                    ELSE /\ pc' = [pc EXCEPT ![r] = "done"]
                         /\ mcpResp' = [mcpResp EXCEPT ![r] =
                                [kind |-> "conflict", conflicts |-> res.busy,
                                 suggestions |-> <<>>]]
                         /\ UNCHANGED probeIdx
               ELSE /\ pc' = [pc EXCEPT ![r] = "inserting"]
                    /\ UNCHANGED <<probeIdx, mcpResp>>
    /\ UNCHANGED <<calendar, req, probes, suggestions, insertCalls>>

\* lines 192-215: one iteration of the suggestion loop
McpProbe(r) ==
    /\ pc[r] = "probing"
    /\ \E fails \in BOOLEAN :
         LET i == probeIdx[r]
             w == CandWindow(req[r], i)
             res == IF fails THEN ProviderError ELSE FreeBusy(calendar, w.start, w.end)
             sugg == IF CandBusy(res) = {}
                     THEN Append(suggestions[r], w)
                     ELSE suggestions[r]
         IN /\ probes' = [probes EXCEPT ![r] =
                    Append(@, [start |-> w.start, end |-> w.end, res |-> res,
                               cal |-> calendar])]
            /\ suggestions' = [suggestions EXCEPT ![r] = sugg]
            /\ IF LoopDone(sugg, i)
               THEN /\ pc' = [pc EXCEPT ![r] = "done"]
                    /\ mcpResp' = [mcpResp EXCEPT ![r] =
                           [kind |-> "conflict", conflicts |-> fbCall[r].res.busy,
                            suggestions |-> sugg]]
                    /\ UNCHANGED probeIdx
               ELSE /\ probeIdx' = [probeIdx EXCEPT ![r] = i + 1]
                    /\ UNCHANGED <<pc, mcpResp>>
    /\ UNCHANGED <<calendar, req, fbCall, insertCalls>>

\* lines 217-223: events().insert
McpInsert(r) ==
    /\ pc[r] = "inserting"
    /\ insertCalls' = [insertCalls EXCEPT ![r] = @ + 1]
    /\ pc' = [pc EXCEPT ![r] = "done"]
    /\ \E fails \in BOOLEAN :
         LET ev == [s |-> Instant(EventStart(req[r])), e |-> Instant(EventEnd(req[r]))]
         IN IF fails
            THEN /\ mcpResp' = [mcpResp EXCEPT ![r] = [kind |-> "error", code |-> 400]]
                 /\ UNCHANGED calendar
            ELSE /\ mcpResp' = [mcpResp EXCEPT ![r] = [kind |-> "created", event |-> ev]]
                 /\ calendar' = calendar \cup {ev}
    /\ UNCHANGED <<req, fbCall, probeIdx, probes, suggestions>>

\* another client of the provider books a slot
ProviderOtherInsert ==
    /\ \E e \in CandEvents \ calendar : calendar' = calendar \cup {e}
    /\ UNCHANGED <<req, pc, fbCall, probeIdx, probes, suggestions, insertCalls, mcpResp>>

NextMcp ==
    \/ \E r \in DOMAIN req : McpNoService(r) /\ UNCHANGED <<apiVars, fnVars, libVars, chunkVars, ragVars, chatVars>>
    \/ \E r \in DOMAIN req : McpFreeBusy(r) /\ UNCHANGED <<apiVars, fnVars, libVars, chunkVars, ragVars, chatVars>>
    \/ \E r \in DOMAIN req : McpProbe(r) /\ UNCHANGED <<apiVars, fnVars, libVars, chunkVars, ragVars, chatVars>>
    \/ \E r \in DOMAIN req : McpInsert(r) /\ UNCHANGED <<apiVars, fnVars, libVars, chunkVars, ragVars, chatVars>>
    \/ ProviderOtherInsert /\ UNCHANGED <<apiVars, fnVars, libVars, chunkVars, ragVars, chatVars>>

(***************************************************************************)
(* Text.                                                                   *)
(***************************************************************************)
LowerLetters == "abcdefghijklmnopqrstuvwxyz"
UpperLetters == "ABCDEFGHIJKLMNOPQRSTUVWXYZ"
DigitChars == "0123456789"

\* s[i-1:j] of Python: positions i..j of s, cut to what s holds
Sub(s, i, j) ==
    IF i > Len(s) \/ j < i \/ j < 1 THEN ""
    ELSE SubSeq(s, Max(i, 1), Min(j, Len(s)))

Ch(s, i) == Sub(s, i, i)
From(s, i) == Sub(s, i, Len(s))

CharsOf(alphabet) == {Ch(alphabet, i) : i \in 1..Len(alphabet)}
LowerSet == CharsOf(LowerLetters)
UpperSet == CharsOf(UpperLetters)
DigitSet == CharsOf(DigitChars)
WordSet == LowerSet \cup UpperSet \cup DigitSet \cup {"_"}
SpaceSet == {" ", "\t", "\n", "\r", "\f"}

\* regex \d, \s, \w on the characters queries are made of
IsDigit(c) == c \in DigitSet
IsSpace(c) == c \in SpaceSet
IsWordChar(c) == c \in WordSet

\* str.lower(), character by character
LowerMap == [c \in UpperSet |->
                Ch(LowerLetters, CHOOSE i \in 1..Len(UpperLetters) : Ch(UpperLetters, i) = c)]
DigitValue == [c \in DigitSet |->
                (CHOOSE i \in 1..Len(DigitChars) : Ch(DigitChars, i) = c) - 1]
LowerChar(c) == IF c \in UpperSet THEN LowerMap[c] ELSE c

RECURSIVE Lower(_)
Lower(s) == IF s = "" THEN "" ELSE LowerChar(Ch(s, 1)) \o Lower(From(s, 2))

\* w in s
Contains(s, w) == \E i \in 1..(Len(s) - Len(w) + 1) : Sub(s, i, i + Len(w) - 1) = w

ContainsAny(s, ws) == \E w \in ws : Contains(s, w)

\* the number of consecutive whitespace characters of s from position j on
RECURSIVE WsRun(_, _)
WsRun(s, j) == IF j <= Len(s) /\ IsSpace(Ch(s, j)) THEN 1 + WsRun(s, j + 1) ELSE 0

\* every character of s from position j on is in [\w\s]
AllWordSpace(s, j) ==
    \A i \in j..Len(s) : IsWordChar(Ch(s, i)) \/ IsSpace(Ch(s, i))

\* the number of consecutive [\w\s] characters of s from position j on
RECURSIVE WordSpaceRun(_, _)
WordSpaceRun(s, j) ==
    IF j <= Len(s) /\ (IsWordChar(Ch(s, j)) \/ IsSpace(Ch(s, j)))
    THEN 1 + WordSpaceRun(s, j + 1) ELSE 0

\* str.strip()
RECURSIVE RStrip(_)
RStrip(s) == IF s /= "" /\ IsSpace(Ch(s, Len(s))) THEN RStrip(Sub(s, 1, Len(s) - 1)) ELSE s
Strip(s) == RStrip(From(s, WsRun(s, 1) + 1))

\* int(s) of a string of digits
RECURSIVE ToInt(_)
ToInt(s) ==
    IF s = "" THEN 0
    ELSE 10 * ToInt(Sub(s, 1, Len(s) - 1)) + DigitValue[Ch(s, Len(s))]

\* str(n), n >= 0
RECURSIVE ToStr(_)
ToStr(n) == IF n < 10 THEN Ch(DigitChars, n + 1)
            ELSE ToStr(n \div 10) \o Ch(DigitChars, (n % 10) + 1)

\* f"{n:02d}" and f"{n:04d}"
RECURSIVE Pad(_, _)
Pad(n, width) == IF Len(ToStr(n)) >= width THEN ToStr(n)
                 ELSE Sub("0000", 1, width - Len(ToStr(n))) \o ToStr(n)

\* " ".join(s.split()[:n])
RECURSIVE FirstWords(_, _)
FirstWords(s, n) ==
    LET t == From(s, WsRun(s, 1) + 1)
        wl == CHOOSE k \in 0..Len(t) :
                 /\ \A i \in 1..k : ~IsSpace(Ch(t, i))
                 /\ k = Len(t) \/ IsSpace(Ch(t, k + 1))
        rest == FirstWords(From(t, wl + 1), n - 1)
    IN IF n = 0 \/ t = "" THEN ""
       ELSE IF rest = "" THEN Sub(t, 1, wl)
       ELSE Sub(t, 1, wl) \o " " \o rest

\* Optional values: None is <<>>, a value v is <<v>>
None == <<>>
Some(v) == <<v>>
IsNone(o) == o = <<>>
Val(o) == o[1]

(***************************************************************************)
(* src/backend/agent.py                                                    *)
(***************************************************************************)
CreateWords == {"create", "schedule", "make", "add", "book", "set up", "reserve"}

IntentOf_ListFirst(q) ==
    IF Contains(q, "list") \/ Contains(q, "upcoming") THEN "LIST_EVENTS"
    ELSE IF Contains(q, "calendar") \/ Contains(q, "event") \/ Contains(q, "events")
    THEN "LIST_EVENTS"
    ELSE IF ContainsAny(q, CreateWords) THEN "CREATE_EVENT"
    ELSE IF Contains(q, "details") THEN "GET_EVENT_DETAILS"
    ELSE IF Contains(q, "search") THEN "SEARCH_EVENTS"
    ELSE "RAG_ONLY"
\* lines 28-40: the rules, on the lower-cased query
IntentOf(q) ==
    IF ContainsAny(q, CreateWords) THEN "CREATE_EVENT"
    ELSE IF Contains(q, "list") \/ Contains(q, "upcoming") THEN "LIST_EVENTS"
    ELSE IF Contains(q, "calendar") \/ Contains(q, "event") \/ Contains(q, "events")
    THEN "LIST_EVENTS"
    ELSE IF Contains(q, "details") THEN "GET_EVENT_DETAILS"
    ELSE IF Contains(q, "search") THEN "SEARCH_EVENTS"
    ELSE "RAG_ONLY"

\* lines 25-40
ClassifyIntent(query) == IntentOf(Lower(query))

AmbiguityVerbs == {"schedule", "create", "make", "add", "book"}
DayNames == {"monday", "tuesday", "wednesday", "thursday", "friday", "saturday", "sunday"}

DetectAmbiguity_AlsoSearch(query) ==
    IF ContainsAny(query, AmbiguityVerbs \cup {"search"})
    THEN (IF /\ ~Contains(query, "am") /\ ~Contains(query, "pm") /\ ~Contains(query, ":")
             /\ ~ContainsAny(query, {"today", "tomorrow", "yesterday"} \cup DayNames)
          THEN <<"time">> ELSE <<>>)
         \o
         (IF /\ ~Contains(query, "today") /\ ~Contains(query, "tomorrow")
             /\ ~Contains(query, "-")
             /\ ~ContainsAny(query, DayNames)
          THEN <<"date">> ELSE <<>>)
    ELSE <<>>
\* lines 41-49; the query is read as given, not lower-cased
DetectAmbiguity(query) ==
    IF ContainsAny(query, AmbiguityVerbs)
    THEN (IF /\ ~Contains(query, "am") /\ ~Contains(query, "pm") /\ ~Contains(query, ":")
             /\ ~ContainsAny(query, {"today", "tomorrow", "yesterday"} \cup DayNames)
          THEN <<"time">> ELSE <<>>)
         \o
         (IF /\ ~Contains(query, "today") /\ ~Contains(query, "tomorrow")
             /\ ~Contains(query, "-")
             /\ ~ContainsAny(query, DayNames)
          THEN <<"date">> ELSE <<>>)
    ELSE <<>>

(***************************************************************************)
(* src/backend/main.py: slot extraction of the CREATE_EVENT branch.        *)
(* A date is <<year, month, day>>.                                         *)
(***************************************************************************)
IsLeap(y) == (y % 4 = 0 /\ y % 100 /= 0) \/ y % 400 = 0

DaysIn(y, m) == IF m \in {4, 6, 9, 11} THEN 30
                ELSE IF m = 2 THEN (IF IsLeap(y) THEN 29 ELSE 28)
                ELSE 31

\* datetime.date(y, m, d): None where the constructor raises ValueError
MakeDate(y, m, d) ==
    IF y \in 1..9999 /\ m \in 1..12 /\ d \in 1..DaysIn(y, m) THEN Some(<<y, m, d>>) ELSE None

\* date + timedelta(days=1)
NextDay(dt) ==
    IF dt[3] < DaysIn(dt[1], dt[2]) THEN <<dt[1], dt[2], dt[3] + 1>>
    ELSE IF dt[2] < 12 THEN <<dt[1], dt[2] + 1, 1>>
    ELSE <<dt[1] + 1, 1, 1>>

\* date + timedelta(days=n)
RECURSIVE PlusDays(_, _)
PlusDays(dt, n) ==
    IF dt[3] + n <= DaysIn(dt[1], dt[2]) THEN <<dt[1], dt[2], dt[3] + n>>
    ELSE PlusDays(NextDay(<<dt[1], dt[2], DaysIn(dt[1], dt[2])>>),
                  n - (DaysIn(dt[1], dt[2]) - dt[3] + 1))

\* date.isoformat()
IsoFormat(dt) == Pad(dt[1], 4) \o "-" \o Pad(dt[2], 2) \o "-" \o Pad(dt[3], 2)

\* \d{4}[seps]\d{2}[seps]\d{2} matches s at position i
DatePatternAt(s, i, seps) ==
    /\ i + 9 <= Len(s)
    /\ \A k \in {0, 1, 2, 3, 5, 6, 8, 9} : IsDigit(Ch(s, i + k))
    /\ Ch(s, i + 4) \in seps
    /\ Ch(s, i + 7) \in seps

\* re.search of that pattern, then date(int(y), int(mo), int(d))
DateAt(s, i) ==
    MakeDate(ToInt(Sub(s, i, i + 3)), ToInt(Sub(s, i + 5, i + 6)), ToInt(Sub(s, i + 8, i + 9)))

SearchDate(s, seps) ==
    IF \E i \in 1..Len(s) : DatePatternAt(s, i, seps)
    THEN DateAt(s, CHOOSE i \in 1..Len(s) :
                     /\ DatePatternAt(s, i, seps)
                     /\ \A j \in 1..(i - 1) : ~DatePatternAt(s, j, seps))
    ELSE None

ExtractDate_IsoOnly(q, day) ==
    IF Contains(q, "today") THEN Some(day)
    ELSE IF Contains(q, "tomorrow") THEN Some(NextDay(day))
    ELSE SearchDate(q, {"-"})
\* lines 203-240: ev_date, from the lower-cased query q
ExtractDate(q, day) ==
    IF Contains(q, "today") THEN Some(day)
    ELSE IF Contains(q, "tomorrow") THEN Some(NextDay(day))
    ELSE IF ~IsNone(SearchDate(q, {"-"})) THEN SearchDate(q, {"-"})
    ELSE SearchDate(q, {"-", "/"})

NoMatch == [found |-> FALSE, start |-> 0, end |-> 0]

\* the end (exclusive) of \d{1,2}(?::\d{2})?\s*(?:am|pm)? matched at position i
TimePatternEnd(s, i) ==
    LET j == IF IsDigit(Ch(s, i + 1)) THEN i + 2 ELSE i + 1
        j2 == IF Ch(s, j) = ":" /\ IsDigit(Ch(s, j + 1)) /\ IsDigit(Ch(s, j + 2))
              THEN j + 3 ELSE j
        j3 == j2 + WsRun(s, j2)
    IN IF Sub(s, j3, j3 + 1) \in {"am", "pm"} THEN j3 + 2 ELSE j3

\* line 242: time_match, the leftmost match in q
TimeMatchAt(q, i) == [found |-> TRUE, start |-> i, end |-> TimePatternEnd(q, i)]

TimeMatch(q) ==
    IF \E i \in 1..Len(q) : IsDigit(Ch(q, i))
    THEN TimeMatchAt(q, CHOOSE i \in 1..Len(q) :
                          IsDigit(Ch(q, i)) /\ \A j \in 1..(i - 1) : ~IsDigit(Ch(q, j)))
    ELSE NoMatch

\* f"{h:02d}:{mm:02d}"
ClockFormat(h, mm) == Pad(h, 2) \o ":" \o Pad(mm, 2)

ParseTime_PmAlwaysAdds(token) ==
    LET tok == Strip(token)
        hl == IF IsDigit(Ch(tok, 2)) THEN 2 ELSE 1
        hasMin == Ch(tok, hl + 1) = ":" /\ IsDigit(Ch(tok, hl + 2)) /\ IsDigit(Ch(tok, hl + 3))
        j == IF hasMin THEN hl + 4 ELSE hl + 1
        j2 == j + WsRun(tok, j)
        ampm == IF Sub(tok, j2, j2 + 1) \in {"am", "pm"} THEN Sub(tok, j2, j2 + 1) ELSE ""
        h0 == ToInt(Sub(tok, 1, hl))
        mm == IF hasMin THEN ToInt(Sub(tok, hl + 2, hl + 3)) ELSE 0
        h1 == IF ampm = "pm" THEN h0 + 12 ELSE h0
        h == IF ampm = "am" /\ h1 = 12 THEN 0 ELSE h1
    IN IF token = "" \/ tok = "" \/ ~IsDigit(Ch(tok, 1)) THEN None
       ELSE Some(ClockFormat(h, mm))
\* lines 250-266: parse_time
ParseTime(token) ==
    LET tok == Strip(token)
        hl == IF IsDigit(Ch(tok, 2)) THEN 2 ELSE 1
        hasMin == Ch(tok, hl + 1) = ":" /\ IsDigit(Ch(tok, hl + 2)) /\ IsDigit(Ch(tok, hl + 3))
        j == IF hasMin THEN hl + 4 ELSE hl + 1
        j2 == j + WsRun(tok, j)
        ampm == IF Sub(tok, j2, j2 + 1) \in {"am", "pm"} THEN Sub(tok, j2, j2 + 1) ELSE ""
        h0 == ToInt(Sub(tok, 1, hl))
        mm == IF hasMin THEN ToInt(Sub(tok, hl + 2, hl + 3)) ELSE 0
        h1 == IF ampm = "pm" /\ h0 < 12 THEN h0 + 12 ELSE h0
        h == IF ampm = "am" /\ h1 = 12 THEN 0 ELSE h1
    IN IF token = "" \/ tok = "" \/ ~IsDigit(Ch(tok, 1)) THEN None
       ELSE Some(ClockFormat(h, mm))

\* lines 243-245, 268: start_time
MatchedTime(q, m) == IF m.found THEN ParseTime(Sub(q, m.start, m.end - 1)) ELSE None

ExtractStartTime(q) == MatchedTime(q, TimeMatch(q))

\* str.split(":") of an HH:MM string
ColonAt(t) == CHOOSE i \in 1..Len(t) : Ch(t, i) = ":"

DefaultEndTime_NoWrap(start_time) ==
    IF IsNone(start_time) THEN None
    ELSE LET t == Val(start_time)
             sh == ToInt(Sub(t, 1, ColonAt(t) - 1))
             sm == ToInt(From(t, ColonAt(t) + 1))
         IN Some(ClockFormat(sh + 1, sm))
\* lines 269-274: end_time
DefaultEndTime(start_time) ==
    IF IsNone(start_time) THEN None
    ELSE LET t == Val(start_time)
             sh == ToInt(Sub(t, 1, ColonAt(t) - 1))
             sm == ToInt(From(t, ColonAt(t) + 1))
         IN Some(ClockFormat((sh + 1) % 24, sm))

\* the length of the marker (named|titled|called) that matches s at p, re.I
MarkerLen(s, p) ==
    IF LowerChar(Ch(s, p)) \notin {"n", "t", "c"} THEN 0
    ELSE IF Lower(Sub(s, p, p + 4)) = "named" THEN 5
    ELSE IF Lower(Sub(s, p, p + 5)) = "titled" THEN 6
    ELSE IF Lower(Sub(s, p, p + 5)) = "called" THEN 6
    ELSE 0

\* (?:\s+at\s+|\s+in\s+|$) matches s at position t
TitleEndAt(s, t) ==
    \/ t = Len(s) + 1
    \/ LET w == WsRun(s, t)
       IN /\ w >= 1
          /\ Lower(Sub(s, t + w, t + w + 1)) \in {"at", "in"}
          /\ IsSpace(Ch(s, t + w + 2))

\* the marker at p, then \s+ taking k characters, then the lazy group
\* [\w\s]+? taking n characters, then the end pattern
\* with the group starting at g: the lengths n of [\w\s]+? after which the
\* end pattern matches
GroupLengths(s, g) == {n \in 1..WordSpaceRun(s, g) : TitleEndAt(s, g + n)}

\* with the marker ending before a: the lengths k of \s+ that let the rest match
GapLengths(s, a) == {k \in 1..WsRun(s, a) : GroupLengths(s, a + k) /= {}}

MarkedTitleAt(s, p) == MarkerLen(s, p) > 0 /\ GapLengths(s, p + MarkerLen(s, p)) /= {}

SetMax(S) == CHOOSE x \in S : \A y \in S : y <= x
SetMin(S) == CHOOSE x \in S : \A y \in S : x <= y

\* line 278: re.search; leftmost marker, longest \s+, shortest group
GroupFrom(s, g) == Some(Sub(s, g, g + SetMin(GroupLengths(s, g)) - 1))

GroupAfter(s, a) == GroupFrom(s, a + SetMax(GapLengths(s, a)))

MarkedTitleFrom(s, p) == GroupAfter(s, p + MarkerLen(s, p))

MarkedTitle(s) ==
    IF \E p \in 1..Len(s) : MarkedTitleAt(s, p)
    THEN MarkedTitleFrom(s, CHOOSE p \in 1..Len(s) :
                                MarkedTitleAt(s, p)
                                /\ \A p2 \in 1..(p - 1) : ~MarkedTitleAt(s, p2))
    ELSE None

\* title(?:d)?\s*(?:is|:)??\s*([\w\s]+)$ with "title" at p and the optional
\* d taken or not: what the group holds up to surrounding whitespace
KeywordTitleAt(s, p, d) ==
    LET b == p + 5 + d
        c == b + WsRun(s, b)
    IN IF LowerChar(Ch(s, p)) /= "t" THEN None
       ELSE IF Lower(Sub(s, p, p + 4)) /= "title" THEN None
       ELSE IF d = 1 /\ Lower(Ch(s, p + 5)) /= "d" THEN None
       ELSE IF b <= Len(s) /\ AllWordSpace(s, b) THEN Some(From(s, b))
       ELSE IF Ch(s, c) = ":" /\ c + 1 <= Len(s) /\ AllWordSpace(s, c + 1)
       THEN Some(From(s, c + 1))
       ELSE None

\* line 283: re.search of the fallback pattern
KeywordTitle(s) ==
    LET R == 1..Len(s)
        at(p) == IF ~IsNone(KeywordTitleAt(s, p, 1)) THEN KeywordTitleAt(s, p, 1)
                 ELSE KeywordTitleAt(s, p, 0)
    IN IF \E p \in R : ~IsNone(at(p))
       THEN at(CHOOSE p \in R : ~IsNone(at(p)) /\ \A p2 \in 1..(p - 1) : IsNone(at(p2)))
       ELSE None

\* lines 276-285: title from the explicit markers
Stripped(o) == IF IsNone(o) THEN None ELSE Some(Strip(Val(o)))

OrElse(a, b) == IF ~IsNone(a) THEN a ELSE b

ExplicitTitle(query) == Stripped(OrElse(MarkedTitle(query), KeywordTitle(query)))

\* line 292: re.sub(r"^(for|on|at)\s+", "", rem)
DropFiller(rem) ==
    LET n == IF Lower(Sub(rem, 1, 3)) = "for" THEN 3
             ELSE IF Lower(Sub(rem, 1, 2)) \in {"on", "at"} THEN 2
             ELSE 0
    IN IF n > 0 /\ WsRun(rem, n + 1) >= 1 THEN From(rem, n + 1 + WsRun(rem, n + 1)) ELSE rem

\* line 294: re.sub(r"^(titled|titeled|title|named|called)\s*[:\-]?\s*", "", rem)
DropMarker(rem) ==
    LET n == IF Lower(Sub(rem, 1, 6)) = "titled" THEN 6
             ELSE IF Lower(Sub(rem, 1, 7)) = "titeled" THEN 7
             ELSE IF Lower(Sub(rem, 1, 5)) = "title" THEN 5
             ELSE IF Lower(Sub(rem, 1, 5)) = "named" THEN 5
             ELSE IF Lower(Sub(rem, 1, 6)) = "called" THEN 6
             ELSE 0
        a == n + 1 + WsRun(rem, n + 1)
        b == IF Ch(rem, a) \in {":", "-"} THEN a + 1 ELSE a
    IN IF n > 0 THEN From(rem, b + WsRun(rem, b)) ELSE rem

\* lines 287-300: the words after the time token
TrailingTitle(query, tm) ==
    FirstWords(Strip(DropMarker(Strip(DropFiller(Strip(From(query, tm.end)))))), 8)

\* lines 276-300: title
TitleOr(t, found, trailing) ==
    IF (IsNone(t) \/ t = Some("")) /\ found /\ trailing /= "" THEN Some(trailing) ELSE t

ExtractTitle(query, tm) ==
    TitleOr(ExplicitTitle(query), tm.found, TrailingTitle(query, tm))

\* lines 302-310: location
ExtractLocation(query) ==
    LET R == 1..Len(query)
        atFits(p) == /\ Lower(Sub(query, p, p + 1)) = "at"
                     /\ p = 1 \/ ~IsWordChar(Ch(query, p - 1))
                     /\ IsSpace(Ch(query, p + 2))
                     /\ p + 3 <= Len(query)
                     /\ AllWordSpace(query, p + 3)
        inFits(p) == /\ Lower(Sub(query, p, p + 1)) = "in"
                     /\ IsSpace(Ch(query, p + 2))
                     /\ p + 3 <= Len(query)
                     /\ AllWordSpace(query, p + 3)
        firstAt == CHOOSE p \in R : atFits(p) /\ \A p2 \in 1..(p - 1) : ~atFits(p2)
        firstIn == CHOOSE p \in R : inFits(p) /\ \A p2 \in 1..(p - 1) : ~inFits(p2)
    IN IF \E p \in R : atFits(p) THEN Some(Strip(From(query, firstAt + 3)))
       ELSE IF \E p \in R : inFits(p) THEN Some(Strip(From(query, firstIn + 3)))
       ELSE None

\* "not x" of Python on an optional string
Falsy(o) == IsNone(o) \/ o = Some("")

MissingSlots_TitleOptional(ev_date, start_time, title) ==
    (IF IsNone(ev_date) THEN <<"date">> ELSE <<>>)
    \o (IF Falsy(start_time) THEN <<"time">> ELSE <<>>)
\* lines 312-318: missing
MissingSlots(ev_date, start_time, title) ==
    (IF IsNone(ev_date) THEN <<"date">> ELSE <<>>)
    \o (IF Falsy(start_time) THEN <<"time">> ELSE <<>>)
    \o (IF Falsy(title) THEN <<"title">> ELSE <<>>)

\* lines 196-318: the slots of a creation query
SlotSet(ev_date, start_time, title, location) ==
    [title |-> title,
     date |-> IF IsNone(ev_date) THEN None ELSE Some(IsoFormat(Val(ev_date))),
     start_time |-> start_time,
     end_time |-> DefaultEndTime(start_time),
     location |-> location,
     missing |-> MissingSlots(ev_date, start_time, title)]

\* q is the lower-cased query (line 197)
SlotsOf(query, q, day) ==
    SlotSet(ExtractDate(q, day), ExtractStartTime(q), ExtractTitle(query, TimeMatch(q)),
            ExtractLocation(query))

ExtractSlots(query, day) == SlotsOf(query, Lower(query), day)

(***************************************************************************)
(* src/backend/evaluator.py.  Confidence is counted in tenths.             *)
(***************************************************************************)
Graded_SteepPenalty(issues) == [confidence |-> 10 - 3 * issues, pass |-> issues = 0]
\* lines 13-18: confidence and pass, from len(issues)
Graded(issues) == [confidence |-> Max(10 - 2 * issues, 0), pass |-> issues = 0]

Issues_DocsOnly(a, ndocs, tool_used) ==
    (IF ndocs = 0 THEN <<"No RAG grounding">> ELSE <<>>)
    \o (IF (Contains(a, "calendar data:") \/ Contains(a, "google calendar")) /\ ~tool_used
        THEN <<"Calendar data referenced without tool usage">> ELSE <<>>)
\* lines 2-11: issues; a is answer.lower()
Issues(a, ndocs, tool_used) ==
    (IF ndocs = 0 /\ ~tool_used THEN <<"No RAG grounding">> ELSE <<>>)
    \o (IF (Contains(a, "calendar data:") \/ Contains(a, "google calendar")) /\ ~tool_used
        THEN <<"Calendar data referenced without tool usage">> ELSE <<>>)

IssueCount(a, ndocs, tool_used) == Len(Issues(a, ndocs, tool_used))

\* " | ".join(issues)
RECURSIVE JoinBar(_)
JoinBar(xs) == IF xs = <<>> THEN ""
               ELSE IF Len(xs) = 1 THEN xs[1]
               ELSE xs[1] \o " | " \o JoinBar(Tail(xs))

\* line 17
Explanation(issues) == IF issues = <<>> THEN "Answer is properly grounded" ELSE JoinBar(issues)

Evaluated(graded, issues) ==
    [confidence |-> graded.confidence, explanation |-> Explanation(issues),
     pass |-> graded.pass]

\* lines 1-19: evaluate_response
EvaluateResponse(answer, ndocs, tool_used) ==
    Evaluated(Graded(IssueCount(Lower(answer), ndocs, tool_used)),
              Issues(Lower(answer), ndocs, tool_used))

(***************************************************************************)
(* src/backend/agent.py: call_tool, given what the HTTP request came to.   *)
(***************************************************************************)
NoBody == [type |-> "none", events |-> <<>>, conflicts |-> <<>>, suggestions |-> <<>>,
           id |-> ""]

McpUrl == "http://localhost:9000"

ToolUnreachable == [kind |-> "unreachable", code |-> 0, text |-> "", body |-> NoBody]
ToolStatus(code, text) == [kind |-> "status", code |-> code, text |-> text, body |-> NoBody]

\* str(e) of the HTTPError raise_for_status raises
StatusMessage(code, url) ==
    ToStr(code) \o (IF code < 500 THEN " Client Error" ELSE " Server Error") \o " for url: " \o url
ToolJson(body) == [kind |-> "json", code |-> 200, text |-> "", body |-> body]

\* lines 7-23
ToolUrl(tool) == McpUrl \o "/" \o tool

\* lines 15-22: msg
ToolErrorMessage(tool, http) ==
    IF http.kind = "unreachable" THEN "Connection refused"
    ELSE StatusMessage(http.code, ToolUrl(tool))
         \o (IF http.text /= "" THEN " | response: " \o http.text ELSE "")

\* lines 7-23
CallTool(tool, http) ==
    IF http.kind = "json" THEN [error |-> "", body |-> http.body]
    ELSE [error |-> "Failed to reach MCP tool '" \o tool \o "' at " \o ToolUrl(tool)
                      \o ": " \o ToolErrorMessage(tool, http),
          body |-> NoBody]

(***************************************************************************)
(* What the tool server may answer.                                        *)
(***************************************************************************)
RawEvents == << [id |-> "e1", summary |-> Some("Standup"),
                 dateTime |-> Some("2026-01-06T10:00:00+05:30"), date |-> None],
                [id |-> "e2", summary |-> None,
                 dateTime |-> None, date |-> Some("2026-01-07")] >>

ListOutcomes ==
    { ToolUnreachable, ToolStatus(500, "Internal Server Error") }
    \cup { ToolJson([NoBody EXCEPT !.type = "events", !.events = SubSeq(RawEvents, 1, n)]) :
             n \in {0, Len(RawEvents)} }

CreateOutcomes ==
    { ToolUnreachable,
      ToolStatus(400, "Google Calendar API error when freebusy querying"),
      ToolJson([NoBody EXCEPT !.type = "conflict",
                              !.conflicts = <<"2026-01-06T10:00:00Z">>,
                              !.suggestions = <<"2026-01-06T16:30:00+05:30">>]),
      ToolJson([NoBody EXCEPT !.type = "event", !.id = "created1"]) }

\* what answer_query retrieves and the composed answer
AnswerTexts == {"No relevant items were found.", "According to Google Calendar you are free."}
MaxDocs == 1

(***************************************************************************)
(* src/backend/main.py: the endpoints.                                     *)
(***************************************************************************)
\* lines 68-90: _normalize_events
NormalizeEvents(tool_data) ==
    IF tool_data.error /= "" \/ tool_data.body.type /= "events" THEN <<>>
    ELSE [i \in 1..Len(tool_data.body.events) |->
            LET e == tool_data.body.events[i]
            IN [id |-> e.id,
                title |-> IF Falsy(e.summary) THEN "(No title)" ELSE Val(e.summary),
                start |-> IF ~Falsy(e.dateTime) THEN e.dateTime ELSE e.date]]

NoSlots == [title |-> None, date |-> None, start_time |-> None, end_time |-> None,
            location |-> None]

NoResp == [http |-> 0, keys |-> {}, result |-> "", confidence |-> 0, events |-> <<>>,
           error |-> "", answer |-> "", missing_slots |-> <<>>, known_fields |-> NoSlots,
           created |-> NoBody, conflicts |-> <<>>, suggestions |-> <<>>]

Json(keys) == [NoResp EXCEPT !.http = 200, !.keys = keys]

ListFailed_Never(tool_data) == FALSE
\* line 172
ListFailed(tool_data) == tool_data.error /= ""

QueryCreateFailed_Never(created) == FALSE
\* line 350
QueryCreateFailed(created) == created.error /= ""

DirectCreateFailed_Never(created) == FALSE
\* line 139
DirectCreateFailed(created) == created.error /= ""

\* lines 142, 359
IsConflict(created) == created.body.type = "conflict"

RECURSIVE JoinComma(_)
JoinComma(xs) == IF xs = <<>> THEN ""
                 ELSE IF Len(xs) = 1 THEN xs[1]
                 ELSE xs[1] \o ", " \o JoinComma(Tail(xs))

\* an optional string as an f-string prints it
Shown(o) == IF IsNone(o) THEN "None" ELSE Val(o)

\* line 160
ListWindowDays == 100

\* lines 155-181: the list_events call of /query
ListCall(day, tool_data) ==
    [tool |-> "list_events",
     payload |-> [start_date |-> IsoFormat(day),
                  end_date |-> IsoFormat(PlusDays(day, ListWindowDays))],
     error |-> tool_data.error]

\* lines 171-181
ListFailedResp(tool_data) ==
    [Json({"answer", "references", "confidence", "result", "events", "summary"})
       EXCEPT !.answer = "Calendar integration is not available: " \o tool_data.error
                         \o ". Connect Google Calendar (OAuth) and ensure the MCP server is running.",
              !.confidence = 0, !.result = "FAIL", !.events = <<>>]

\* lines 320-336
NeedsMoreInfoResp(sl) ==
    [Json({"answer", "references", "confidence", "result", "missing_slots", "known_fields"})
       EXCEPT !.answer = "I need more details to create the event. Missing: "
                         \o JoinComma(sl.missing) \o ".",
              !.confidence = 0, !.result = "NEEDS_MORE_INFO",
              !.missing_slots = sl.missing,
              !.known_fields = [title |-> sl.title, date |-> sl.date,
                                start_time |-> sl.start_time, end_time |-> sl.end_time,
                                location |-> sl.location]]

\* lines 338-345
QueryCreatePayload(sl) ==
    [title |-> sl.title, date |-> sl.date, start_time |-> sl.start_time,
     end_time |-> sl.end_time, description |-> "",
     location |-> IF Falsy(sl.location) THEN "" ELSE Val(sl.location)]

\* lines 347-391: the answer to the create_event call of /query
QueryCreateResp(payload, created, events, ndocs) ==
    IF QueryCreateFailed(created)
    THEN [Json({"answer", "references", "confidence", "result"})
            EXCEPT !.answer = "Failed to reach calendar tool: " \o created.error,
                   !.confidence = 0, !.result = "FAIL"]
    ELSE IF IsConflict(created)
    THEN [Json({"answer", "summary", "events", "references", "confidence", "result",
                "conflicts", "suggestions", "attempted_payload"})
            EXCEPT !.answer = "Requested time conflicts with existing events.",
                   !.events = events, !.confidence = 0, !.result = "CONFLICT",
                   !.conflicts = created.body.conflicts,
                   !.suggestions = created.body.suggestions]
    ELSE LET summary == "Created event '" \o Shown(payload.title) \o "' on "
                          \o Shown(payload.date) \o " at " \o Shown(payload.start_time)
                          \o " (location: " \o payload.location \o ")."
             evaluation == EvaluateResponse(summary, ndocs, TRUE)
         IN [Json({"answer", "summary", "events", "references", "confidence", "result",
                   "created"})
               EXCEPT !.answer = summary, !.events = events,
                      !.confidence = evaluation.confidence,
                      !.result = IF evaluation.pass THEN "PASS" ELSE "FAIL",
                      !.created = created.body]

\* lines 392-400
AmbiguousResp(missing) ==
    [Json({"answer", "references", "confidence", "result"})
       EXCEPT !.answer = "The query is ambiguous. Please provide the following details: "
                         \o JoinComma(missing) \o ".",
              !.confidence = 6, !.result = "PASS"]

InformationalResp_ToolUnused(answer, events, ndocs) ==
    [Json({"answer", "summary", "events", "references", "confidence", "result",
           "kb_hits", "event_hits"})
       EXCEPT !.answer = answer, !.events = events,
              !.confidence = EvaluateResponse(answer, ndocs, FALSE).confidence,
              !.result = IF EvaluateResponse(answer, ndocs, FALSE).pass THEN "PASS" ELSE "FAIL"]
\* lines 506-518
InformationalResp(answer, events, ndocs) ==
    [Json({"answer", "summary", "events", "references", "confidence", "result",
           "kb_hits", "event_hits"})
       EXCEPT !.answer = answer, !.events = events,
              !.confidence = EvaluateResponse(answer, ndocs, TRUE).confidence,
              !.result = IF EvaluateResponse(answer, ndocs, TRUE).pass THEN "PASS" ELSE "FAIL"]

\* lines 155-518: POST /query
QueryAgent ==
    /\ apiReq.ep = "query"
    /\ resp.http = 0
    /\ \E listHttp \in ListOutcomes :
       \E tool_data \in {CallTool("list_events", listHttp)} :
         IF ListFailed(tool_data)
         THEN /\ resp' = ListFailedResp(tool_data)
              /\ calls' = <<ListCall(today, tool_data)>>
              /\ UNCHANGED <<intent, ambiguity, slots>>
         ELSE \E classified \in {ClassifyIntent(apiReq.query)} :
              /\ intent' = classified
              /\ IF classified = "CREATE_EVENT"
                 THEN \E sl \in {ExtractSlots(apiReq.query, today)} :
                      /\ slots' = Some(sl)
                      /\ UNCHANGED ambiguity
                      /\ IF sl.missing /= <<>>
                         THEN /\ resp' = NeedsMoreInfoResp(sl)
                              /\ calls' = <<ListCall(today, tool_data)>>
                         ELSE \E createHttp \in CreateOutcomes, ndocs \in 0..MaxDocs :
                              \E created \in {CallTool("create_event", createHttp)} :
                                /\ resp' = QueryCreateResp(QueryCreatePayload(sl), created,
                                                           NormalizeEvents(tool_data), ndocs)
                                /\ calls' = <<ListCall(today, tool_data),
                                              [tool |-> "create_event",
                                               payload |-> QueryCreatePayload(sl),
                                               error |-> created.error]>>
                 ELSE \E missing \in {DetectAmbiguity(apiReq.query)} :
                      /\ ambiguity' = Some(missing)
                      /\ UNCHANGED slots
                      /\ IF missing /= <<>>
                         THEN /\ resp' = AmbiguousResp(missing)
                              /\ calls' = <<ListCall(today, tool_data)>>
                         ELSE \E answer \in AnswerTexts, ndocs \in 0..MaxDocs :
                                /\ resp' = InformationalResp(answer,
                                                             NormalizeEvents(tool_data), ndocs)
                                /\ calls' = <<ListCall(today, tool_data)>>
    /\ UNCHANGED <<today, apiReq>>

\* datetime.fromisoformat(f"{date}T{time}") succeeds
IsoDateTimeOk(d, t) ==
    /\ Len(d) = 10 /\ DatePatternAt(d, 1, {"-"})
    /\ ~IsNone(MakeDate(ToInt(Sub(d, 1, 4)), ToInt(Sub(d, 6, 7)), ToInt(Sub(d, 9, 10))))
    /\ Len(t) = 5 /\ IsDigit(Ch(t, 1)) /\ IsDigit(Ch(t, 2)) /\ Ch(t, 3) = ":"
    /\ IsDigit(Ch(t, 4)) /\ IsDigit(Ch(t, 5))
    /\ ToInt(Sub(t, 1, 2)) < 24 /\ ToInt(Sub(t, 4, 5)) < 60

\* str.replace("/", "-")
RECURSIVE SlashToDash(_)
SlashToDash(t) == IF t = "" THEN ""
                  ELSE (IF Ch(t, 1) = "/" THEN "-" ELSE Ch(t, 1)) \o SlashToDash(From(t, 2))

\* lines 122-136: the payload /create forwards
DirectCreateData(p) ==
    LET d == IF Contains(p.date, "/") THEN SlashToDash(p.date) ELSE p.date
        e == IF Falsy(p.end_time) /\ p.start_time /= "" /\ IsoDateTimeOk(d, p.start_time)
             THEN Some(ClockFormat((ToInt(Sub(p.start_time, 1, 2)) + 1) % 24,
                                   ToInt(Sub(p.start_time, 4, 5))))
             ELSE p.end_time
    IN [p EXCEPT !.date = d, !.end_time = e]

\* lines 138-152
DirectCreateResp(created) ==
    IF DirectCreateFailed(created)
    THEN [Json({"result", "error"}) EXCEPT !.result = "FAIL", !.error = created.error]
    ELSE IF IsConflict(created)
    THEN [Json({"answer", "result", "conflicts", "suggestions"})
            EXCEPT !.answer = "Requested time conflicts with existing events.",
                   !.result = "CONFLICT",
                   !.conflicts = created.body.conflicts,
                   !.suggestions = created.body.suggestions]
    ELSE [Json({"result", "created"}) EXCEPT !.result = "PASS", !.created = created.body]

\* lines 116-152: POST /create
CreateDirect ==
    /\ apiReq.ep = "create"
    /\ resp.http = 0
    /\ \E createHttp \in CreateOutcomes :
       \E created \in {CallTool("create_event", createHttp)} :
         /\ resp' = DirectCreateResp(created)
         /\ calls' = <<[tool |-> "create_event",
                        payload |-> DirectCreateData(apiReq.payload),
                        error |-> created.error]>>
    /\ UNCHANGED <<today, apiReq>>

(***************************************************************************)
(* The functions of agent.py and the slot extractor, applied to a query on *)
(* their own.                                                              *)
(***************************************************************************)
Unset == "unset"

NotApplied == intent = Unset /\ ambiguity = None /\ slots = None

Classify ==
    /\ apiReq.ep = "query"
    /\ NotApplied
    /\ intent' = ClassifyIntent(apiReq.query)
    /\ UNCHANGED <<ambiguity, slots>>

Detect ==
    /\ apiReq.ep = "query"
    /\ NotApplied
    /\ ambiguity' = Some(DetectAmbiguity(apiReq.query))
    /\ UNCHANGED <<intent, slots>>

Extract ==
    /\ apiReq.ep = "query"
    /\ NotApplied
    /\ slots' = Some(ExtractSlots(apiReq.query, today))
    /\ UNCHANGED <<intent, ambiguity>>

(***************************************************************************)
(* parse_time (main.py) and evaluate_response (evaluator.py), called on    *)
(* their own.                                                              *)
(***************************************************************************)
\* a clock time_token as line 242 matches it in the lower-cased query: one or two
\* digits, optional :MM, optional blanks, optional am/pm
TokenText(digits, minute, gap, marker) ==
    digits \o (IF IsNone(minute) THEN "" ELSE ":" \o Pad(Val(minute), 2)) \o gap \o marker

TokenHours == {0, 5, 11, 12, 13, 23}
TokenMinutes == {None, Some(0), Some(5), Some(30)}

TokensOf(h, digits) ==
    { [text |-> TokenText(digits, m, g, a), hour |-> h, minute |-> m, marker |-> a] :
        m \in TokenMinutes, g \in {"", " "}, a \in {"", "am", "pm"} }

Tokens == UNION { TokensOf(h, ToStr(h)) \cup TokensOf(h, Pad(h, 2)) : h \in TokenHours }

NoToken == [text |-> "", hour |-> 0, minute |-> None, marker |-> ""]

\* line 268: parse_time(time_token)
ParseTimeCall ==
    /\ time_token /= NoToken
    /\ parsed = None
    /\ parsed' = Some(ParseTime(time_token.text))
    /\ UNCHANGED <<time_token, evalArgs, evalResult, composeArgs, composed>>

EvalAnswers == { "", "No events found.", "Calendar data: 2 events tomorrow",
                 "Your Google Calendar is free", "The calendar database is offline",
                 "Based on the handbook, stand-ups are daily" }

EvalInputs ==
    { [answer |-> a, ndocs |-> n, tool_used |-> t] :
        a \in EvalAnswers, n \in 0..MaxDocs, t \in BOOLEAN }

NoEvalArgs == [answer |-> "", ndocs |-> 0, tool_used |-> FALSE, none |-> TRUE]

\* evaluate_response(answer, retrieved_docs, tool_used)
EvaluateCall ==
    /\ evalArgs \in EvalInputs
    /\ evalResult = None
    /\ evalResult' = Some(EvaluateResponse(evalArgs.answer, evalArgs.ndocs, evalArgs.tool_used))
    /\ UNCHANGED <<time_token, parsed, evalArgs, composeArgs, composed>>

NoComposeArgs == [none |-> TRUE]

LibOff ==
    /\ time_token = NoToken
    /\ parsed = None
    /\ evalArgs = NoEvalArgs
    /\ evalResult = None
    /\ composeArgs = NoComposeArgs
    /\ composed = None

(***************************************************************************)
(* src/backend/rag.py: chunk_text.                                         *)
(***************************************************************************)
\* str.split(): the maximal runs of non-blank characters, in order
WordStarts(s) ==
    { i \in 1..Len(s) : ~IsSpace(Ch(s, i)) /\ (i = 1 \/ IsSpace(Ch(s, i - 1))) }

WordEnd(s, i) ==
    CHOOSE j \in i..Len(s) :
        /\ \A k \in i..j : ~IsSpace(Ch(s, k))
        /\ j = Len(s) \/ IsSpace(Ch(s, j + 1))

NthStart(at, n) == CHOOSE i \in at : Cardinality({ j \in at : j < i }) = n - 1

WordsAt(s, at) ==
    [ n \in 1..Cardinality(at) |-> Sub(s, NthStart(at, n), WordEnd(s, NthStart(at, n))) ]

Split(s) == WordsAt(s, WordStarts(s))

\* " ".join(ws)
RECURSIVE Join(_)
Join(ws) ==
    IF ws = <<>> THEN ""
    ELSE IF Len(ws) = 1 THEN ws[1]
    ELSE ws[1] \o " " \o Join(Tail(ws))

\* words[start:end] with 0 <= start <= end <= len(words)
Slice(ws, start, end) == SubSeq(ws, start + 1, end)

NextStart_NoOverlap(start, end, overlap) == end
NextStart_Unguarded(start, end, overlap) == end - overlap
\* line 83
NextStart(start, end, overlap) == IF end - overlap > start THEN end - overlap ELSE end

\* lines 77-83: the loop, from its variable start on; end is line 78's
RECURSIVE ChunkLoop(_, _, _, _)
ChunkFrom(words, start, end, chunk_size, overlap) ==
    <<Join(Slice(words, start, end))>>
    \o (IF end = Len(words) THEN <<>>
        ELSE ChunkLoop(words, NextStart(start, end, overlap), chunk_size, overlap))

ChunkLoop(words, start, chunk_size, overlap) ==
    IF start < Len(words)
    THEN ChunkFrom(words, start, Min(start + chunk_size, Len(words)), chunk_size, overlap)
    ELSE <<>>

ChunkWords(words, chunk_size, overlap) ==
    IF words = <<>> THEN <<>> ELSE ChunkLoop(words, 0, chunk_size, overlap)

\* lines 66-84
ChunkText(text, chunk_size, overlap) == ChunkWords(Split(text), chunk_size, overlap)

MaxWords == 6
MaxChunkSize == 3

WordPool == << "alpha", "beta", "gamma", "delta", "epsilon", "zeta", "eta", "theta" >>

\* a text written from words with the given blanks around and between them
RECURSIVE Written(_, _, _)
Written(ws, lead, sep) ==
    IF ws = <<>> THEN lead
    ELSE IF Len(ws) = 1 THEN lead \o ws[1] \o lead
    ELSE lead \o ws[1] \o sep \o Written(Tail(ws), "", sep) \o lead

Blanks == { <<"", " ">>, <<" ", "  ">>, <<"\n", "\t ">> }

ChunkInputs ==
    { [words |-> SubSeq(WordPool, 1, n), text |-> Written(SubSeq(WordPool, 1, n), b[1], b[2]),
       chunk_size |-> c, overlap |-> o] :
        n \in 0..MaxWords, b \in Blanks, c \in 1..MaxChunkSize, o \in 0..MaxChunkSize }

NoChunkArgs == [words |-> <<>>, text |-> "", chunk_size |-> 0, overlap |-> 0]

ChunkTextCall ==
    /\ chunkArgs /= NoChunkArgs
    /\ chunks = None
    /\ chunks' = Some(ChunkText(chunkArgs.text, chunkArgs.chunk_size, chunkArgs.overlap))
    /\ UNCHANGED <<chunkArgs, loop>>

NoLoop == [pc |-> "off", words |-> <<>>, start |-> 0, chunks |-> <<>>]

\* lines 71-76: up to the while
ChunkEnter ==
    /\ chunkArgs /= NoChunkArgs
    /\ loop.pc = "called"
    /\ \E words \in {Split(chunkArgs.text)} :
          loop' = [loop EXCEPT !.words = words,
                               !.pc = IF words = <<>> THEN "returned" ELSE "while"]
    /\ UNCHANGED <<chunkArgs, chunks>>

\* what one evaluation of the while condition and of the body leaves
Iterated(words, lp, end, chunk_size, overlap) ==
    IF ~(lp.start < Len(words)) THEN [lp EXCEPT !.pc = "returned"]
    ELSE IF end = Len(words)
    THEN [lp EXCEPT !.pc = "returned",
                    !.chunks = Append(@, Join(Slice(words, lp.start, end)))]
    ELSE [lp EXCEPT !.start = NextStart(lp.start, end, overlap),
                    !.chunks = Append(@, Join(Slice(words, lp.start, end)))]

\* lines 77-83: one iteration
ChunkIterate ==
    /\ loop.pc = "while"
    /\ loop' = Iterated(loop.words, loop,
                        Min(loop.start + chunkArgs.chunk_size, Len(loop.words)),
                        chunkArgs.chunk_size, chunkArgs.overlap)
    /\ UNCHANGED <<chunkArgs, chunks>>

ChunkOff ==
    /\ chunkArgs = NoChunkArgs
    /\ chunks = None
    /\ loop = NoLoop

(***************************************************************************)
(* src/backend/rag.py: the index built or loaded when the module is        *)
(* imported, and the two retrievers.  embed_text is not part of the        *)
(* sources: an embedding row is written as the text it embeds, and the     *)
(* cosine scores of a query against the rows are any values of ScoreVals.  *)
(* Scores, thresholds and ratios are counted in hundredths.                *)
(***************************************************************************)
\* line 100: chunk_text(text, chunk_size=200, overlap=50)
KbChunkSize == 200
KbOverlap == 50

\* lines 101-103: the chunk records of one file
ChunkRecords(name, texts) ==
    [ i \in 1..Len(texts) |->
        [id |-> name \o "::chunk:" \o ToStr(i - 1), file |-> name,
         chunk_index |-> i - 1, text |-> texts[i]] ]

FileChunks(f) == ChunkRecords(f.name, ChunkText(Strip(f.text), KbChunkSize, KbOverlap))

\* lines 92-104: kb_chunks.append over os.listdir, directories skipped
RECURSIVE BuiltChunks(_)
BuiltChunks(files) ==
    IF files = <<>> THEN <<>>
    ELSE (IF files[1].is_file THEN FileChunks(files[1]) ELSE <<>>) \o BuiltChunks(Tail(files))

\* line 98: documents.append
RECURSIVE BuiltDocuments(_)
BuiltDocuments(files) ==
    IF files = <<>> THEN <<>>
    ELSE (IF files[1].is_file THEN <<[id |-> files[1].name, text |-> Strip(files[1].text)]>>
          ELSE <<>>) \o BuiltDocuments(Tail(files))

\* lines 104-106: one embedding row per chunk, in order
Rows(chunk_records) == [ i \in 1..Len(chunk_records) |-> chunk_records[i].text ]

NoFile == None
StoredFile(content) == Some([readable |-> TRUE, content |-> content])
CorruptFile == Some([readable |-> FALSE, content |-> <<>>])

NotLoaded == [loaded |-> FALSE, chunks |-> None, rows |-> None]

\* lines 51-63: _load_cache; chunks and rows are what it assigned to the globals
LoadCache(cache) ==
    IF IsNone(cache.meta) \/ IsNone(cache.emb) THEN NotLoaded
    ELSE IF ~Val(cache.meta).readable THEN NotLoaded
    ELSE IF ~Val(cache.emb).readable
    THEN [NotLoaded EXCEPT !.chunks = Some(Val(cache.meta).content)]
    ELSE [loaded |-> TRUE, chunks |-> Some(Val(cache.meta).content),
          rows |-> Some(Val(cache.emb).content)]

\* lines 32-48: _save_cache; it returns silently where a write raises
SaveOutcomes == {"saved", "meta only", "nothing"}

SaveCache(cache, chunk_records, rows, outcome) ==
    IF outcome = "nothing" THEN cache
    ELSE IF outcome = "meta only" \/ rows = <<>>
    THEN [cache EXCEPT !.meta = StoredFile(chunk_records)]
    ELSE [meta |-> StoredFile(chunk_records), emb |-> StoredFile(rows)]

\* the start that wrote each cache file, 0 for a file older than the first
\* start; cut marks a save that a crash of the process ended
NoSaveLog == [meta |-> 0, emb |-> 0, cut |-> FALSE]

SaveLogged(log, n, outcome) ==
    IF outcome = "nothing" THEN log
    ELSE IF outcome = "meta only" THEN [log EXCEPT !.meta = n, !.cut = FALSE]
    ELSE [meta |-> n, emb |-> n, cut |-> FALSE]

\* lines 90-111: the rebuild, from the globals as _load_cache left them
Rebuild(files, base, built, outcome) ==
    /\ documents' = documents \o BuiltDocuments(files)
    /\ kb_chunks' = base \o built
    /\ IF built = <<>>
       THEN UNCHANGED <<kb_chunk_embeddings, cacheFiles, saveLog>>
       ELSE /\ kb_chunk_embeddings' = Rows(built)
            /\ cacheFiles' = SaveCache(cacheFiles, base \o built, Rows(built), outcome)
            /\ saveLog' = SaveLogged(saveLog, starts, outcome)

\* lines 87-111: the module body
Startup ==
    /\ ragPc = "import"
    /\ ragPc' = "ready"
    /\ IF IsNone(kbDir)
       THEN UNCHANGED <<documents, kb_chunks, kb_chunk_embeddings, cacheFiles, saveLog>>
       ELSE \E ld \in {LoadCache(cacheFiles)} :
              IF ld.loaded
              THEN /\ kb_chunks' = Val(ld.chunks)
                   /\ kb_chunk_embeddings' = Val(ld.rows)
                   /\ UNCHANGED <<documents, cacheFiles, saveLog>>
              ELSE \E outcome \in SaveOutcomes :
                     Rebuild(Val(kbDir),
                             IF IsNone(ld.chunks) THEN kb_chunks ELSE Val(ld.chunks),
                             BuiltChunks(Val(kbDir)), outcome)
    /\ UNCHANGED <<kbDir, starts, ragCall, hits>>

\* where a crash of the process can end _save_cache: before the metadata
\* file is replaced (line 40), or after it and before the embeddings file is
\* replaced (line 45)
CrashPoints == {"nothing", "meta only"}

\* lines 87-109 with the process dying inside _save_cache
StartupCrash ==
    /\ ragPc = "import"
    /\ ~IsNone(kbDir)
    /\ ~LoadCache(cacheFiles).loaded
    /\ BuiltChunks(Val(kbDir)) /= <<>>
    /\ \E point \in CrashPoints, ld \in {LoadCache(cacheFiles)}, built \in {BuiltChunks(Val(kbDir))} :
          /\ cacheFiles' = SaveCache(cacheFiles,
                                     (IF IsNone(ld.chunks) THEN kb_chunks ELSE Val(ld.chunks))
                                        \o built,
                                     Rows(built), point)
          /\ saveLog' = [SaveLogged(saveLog, starts, point) EXCEPT !.cut = TRUE]
    /\ ragPc' = "crashed"
    /\ documents' = <<>>
    /\ kb_chunks' = <<>>
    /\ kb_chunk_embeddings' = <<>>
    /\ UNCHANGED <<kbDir, starts, ragCall, hits>>

NoRagCall == [fn |-> "none", top_k |-> 0, threshold |-> 0, ratio |-> 0,
              scores |-> <<>>, events |-> <<>>]
NoHits == [returned |-> FALSE, raised |-> FALSE, results |-> <<>>]

\* the process ends and a new one imports the module
MaxStarts == 2

Restart ==
    /\ ragPc \in {"ready", "crashed"}
    /\ ragCall = NoRagCall
    /\ starts < MaxStarts
    /\ starts' = starts + 1
    /\ ragPc' = "import"
    /\ documents' = <<>>
    /\ kb_chunks' = <<>>
    /\ kb_chunk_embeddings' = <<>>
    /\ UNCHANGED <<kbDir, cacheFiles, saveLog, ragCall, hits>>

\* numpy's argsort with its default kind, which is not a stable sort: any
\* order of the indices that puts the scores in ascending order
ArgSorts(scores) ==
    { p \in [1..Len(scores) -> 1..Len(scores)] :
        /\ \A i, j \in 1..Len(scores) : i /= j => p[i] /= p[j]
        /\ \A i, j \in 1..Len(scores) : i < j => scores[p[i]] <= scores[p[j]] }

\* seq[-k:] of Python for k >= 0; -0 is 0, and the slice from 0 is all of seq
LastK(seq, k) ==
    IF k = 0 \/ k >= Len(seq) THEN seq ELSE SubSeq(seq, Len(seq) - k + 1, Len(seq))

\* seq[::-1]
Reversed(seq) == [ i \in 1..Len(seq) |-> seq[Len(seq) - i + 1] ]

\* lines 126 and 178: inds
TopIndices(order, top_k) == Reversed(LastK(order, top_k))

Hit(chunk, score) ==
    [id |-> chunk.id, file |-> chunk.file, chunk_index |-> chunk.chunk_index,
     text |-> chunk.text, score |-> score]

Returned(results) == [returned |-> TRUE, raised |-> FALSE, results |-> results]
Raised == [returned |-> FALSE, raised |-> TRUE, results |-> <<>>]

\* line 129
KbKeep(score, threshold) == score >= threshold

KbKept(inds, scores, threshold) ==
    SelectSeq(inds, LAMBDA i : KbKeep(scores[i], threshold))

\* lines 127-138: kb_chunks[i] raises IndexError where the row has no record
KbResults(chunk_records, kept, scores) ==
    IF \E k \in 1..Len(kept) : kept[k] > Len(chunk_records) THEN Raised
    ELSE Returned([ k \in 1..Len(kept) |-> Hit(chunk_records[kept[k]], scores[kept[k]]) ])

\* lines 120-138: retrieve_kb, given the scores and the order argsort gave
RetrieveKb(chunk_records, rows, scores, order, top_k, threshold) ==
    IF rows = <<>> THEN Returned(<<>>)
    ELSE KbResults(chunk_records, KbKept(TopIndices(order, top_k), scores, threshold), scores)

\* lines 149-154: the document of one event
EventText(ev) ==
    "Title: " \o (IF ev.title = "" THEN "(No title)" ELSE ev.title)
    \o ". When: " \o (IF Falsy(ev.start) THEN "" ELSE Val(ev.start))
    \o ". Location: " \o ". Details: "

EventDoc(ev, score) == [id |-> ev.id, text |-> EventText(ev), raw |-> ev, score |-> score]

SeqMax(scores) == CHOOSE m \in { scores[i] : i \in 1..Len(scores) } :
                    \A i \in 1..Len(scores) : scores[i] <= m

\* line 183
EventKeep(s, max_score, threshold, ratio) == s >= threshold /\ s * 100 >= max_score * ratio

EventKept(inds, scores, max_score, threshold, ratio) ==
    SelectSeq(inds, LAMBDA i : EventKeep(scores[i], max_score, threshold, ratio))

EventResults(events, kept, scores) ==
    [ k \in 1..Len(kept) |-> EventDoc(events[kept[k]], scores[kept[k]]) ]

\* lines 159-187: retrieve_events, given the scores and the order argsort gave
RetrieveEvents(events, scores, order, top_k, threshold, ratio) ==
    IF events = <<>> THEN Returned(<<>>)
    ELSE IF SeqMax(scores) < threshold THEN Returned(<<>>)
    ELSE Returned(EventResults(events,
                               EventKept(TopIndices(order, top_k), scores, SeqMax(scores),
                                         threshold, ratio),
                               scores))

\* the defaults of retrieve_kb and retrieve_events
KbThreshold == 16
EventThreshold == 18
MinRelScoreRatio == 50

MaxTopK == 3
ScoreVals == {0, 16, 40, 90}
Thresholds == {KbThreshold, EventThreshold, 50}
Ratios == {MinRelScoreRatio, 100}

RetrieveKbCall ==
    /\ ragPc = "ready"
    /\ ragCall = NoRagCall
    /\ \E top_k \in 0..MaxTopK, threshold \in Thresholds,
          scores \in [1..Len(kb_chunk_embeddings) -> ScoreVals] :
         \E order \in ArgSorts(scores) :
            /\ ragCall' = [NoRagCall EXCEPT !.fn = "retrieve_kb", !.top_k = top_k,
                                            !.threshold = threshold, !.scores = scores]
            /\ hits' = RetrieveKb(kb_chunks, kb_chunk_embeddings, scores, order,
                                  top_k, threshold)
    /\ UNCHANGED <<kbDir, cacheFiles, ragPc, starts, saveLog, documents, kb_chunks,
                   kb_chunk_embeddings>>

\* the events /query hands to answer_query: what _normalize_events made
SampleEvents ==
    NormalizeEvents(CallTool("list_events",
                             ToolJson([NoBody EXCEPT !.type = "events", !.events = RawEvents])))

EventLists == { SubSeq(SampleEvents, 1, n) : n \in 0..Len(SampleEvents) }

RetrieveEventsCall ==
    /\ ragPc = "ready"
    /\ ragCall = NoRagCall
    /\ \E events \in EventLists, top_k \in 0..MaxTopK, threshold \in Thresholds,
          ratio \in Ratios :
         \E scores \in [1..Len(events) -> ScoreVals] :
           \E order \in ArgSorts(scores) :
              /\ ragCall' = [fn |-> "retrieve_events", top_k |-> top_k,
                             threshold |-> threshold, ratio |-> ratio,
                             scores |-> scores, events |-> events]
              /\ hits' = RetrieveEvents(events, scores, order, top_k, threshold, ratio)
    /\ UNCHANGED <<kbDir, cacheFiles, ragPc, starts, saveLog, documents, kb_chunks,
                   kb_chunk_embeddings>>

\* the knowledge_base directory and the rag_cache directory at a start
FileA == [name |-> "faq.md", is_file |-> TRUE, text |-> "Stand-ups are daily at ten\n"]
FileB == [name |-> "rooms.txt", is_file |-> TRUE, text |-> "  Rooms are booked through the calendar "]
FileC == [name |-> "leave.md", is_file |-> TRUE, text |-> "Leave is requested a week ahead"]
FileEmpty == [name |-> "empty.txt", is_file |-> TRUE, text |-> " \n"]
DirX == [name |-> "archive", is_file |-> FALSE, text |-> ""]

KbDirs == { None, Some(<<>>), Some(<<FileEmpty>>), Some(<<FileA>>),
            Some(<<FileB, DirX, FileA>>), Some(<<FileA, FileEmpty, FileB, FileC>>) }

CacheOf(files_meta, files_emb) ==
    [meta |-> StoredFile(BuiltChunks(files_meta)), emb |-> StoredFile(Rows(BuiltChunks(files_emb)))]

NoCache == [meta |-> NoFile, emb |-> NoFile]

Caches ==
    { NoCache,
      CacheOf(<<FileA>>, <<FileA>>),
      CacheOf(<<FileA, FileB>>, <<FileA, FileB>>),
      CacheOf(<<FileA>>, <<FileA, FileB>>),
      CacheOf(<<FileA, FileB>>, <<FileA>>),
      [CacheOf(<<FileA>>, <<FileA>>) EXCEPT !.emb = CorruptFile],
      [CacheOf(<<FileA>>, <<FileA>>) EXCEPT !.meta = CorruptFile],
      [CacheOf(<<FileA>>, <<FileA>>) EXCEPT !.emb = NoFile] }

RagOff ==
    /\ kbDir = None
    /\ cacheFiles = NoCache
    /\ ragPc = "off"
    /\ starts = 0
    /\ saveLog = NoSaveLog
    /\ documents = <<>>
    /\ kb_chunks = <<>>
    /\ kb_chunk_embeddings = <<>>
    /\ ragCall = NoRagCall
    /\ hits = NoHits

(***************************************************************************)
(* src/backend/rag.py: answer_query, and src/backend/main.py:              *)
(* compose_answer_with_llm.  A step of the composition ends in one of      *)
(* three ways: it returns a text, it raises, or control runs on.           *)
(***************************************************************************)
\* "\n".join(parts)
RECURSIVE JoinLines(_)
JoinLines(xs) == IF xs = <<>> THEN ""
                 ELSE IF Len(xs) = 1 THEN xs[1]
                 ELSE xs[1] \o "\n" \o JoinLines(Tail(xs))

\* f"{score:.2f}", the score counted in hundredths
TwoPlaces(score) == ToStr(score \div 100) \o "." \o Pad(score % 100, 2)

\* lines 201-209
EventLines(ev_res) ==
    IF ev_res = <<>> THEN <<"No directly matching calendar events were found.">>
    ELSE <<"I found " \o ToStr(Len(ev_res)) \o " calendar event(s) related to your query:">>
         \o [ i \in 1..Len(ev_res) |->
                "- " \o (IF ev_res[i].raw.title = "" THEN "(No title)" ELSE ev_res[i].raw.title)
                \o " at " \o (IF Falsy(ev_res[i].raw.start) THEN ""
                               ELSE Val(ev_res[i].raw.start)) ]

\* lines 211-214
KbLines(kb_res) ==
    IF kb_res = <<>> THEN <<>>
    ELSE <<"I also found " \o ToStr(Len(kb_res))
           \o " knowledge-base document(s) that may be relevant:">>
         \o [ i \in 1..Len(kb_res) |->
                "- " \o kb_res[i].id \o " (score=" \o TwoPlaces(kb_res[i].score) \o ")" ]

\* lines 190-223: answer_query, given what the two retrievals returned
AnswerQuery(kb_res, ev_res) ==
    [kb_results |-> kb_res, event_results |-> ev_res,
     summary |-> JoinLines(EventLines(ev_res) \o KbLines(kb_res))]

Return(text, by) == [kind |-> "return", text |-> text, by |-> by]
Raise == [kind |-> "raise", text |-> "", by |-> ""]
RunOn == [kind |-> "next", text |-> "", by |-> ""]

\* try: ... except Exception: pass
Caught(step) == IF step.kind = "raise" THEN RunOn ELSE step

\* main.py lines 449-466: the call patterns tried on the ChatGroq object
GroqCall(env) ==
    IF env.groq_method = "none" THEN RunOn
    ELSE IF env.groq_out = "raises" THEN Raise
    ELSE Return(env.groq_text, "groq")

\* lines 408-466: the body of the outer try
GroqBranch(env) ==
    IF ~env.groq_key THEN RunOn
    ELSE IF ~env.groq_import THEN RunOn
    ELSE IF env.groq_ctor = "raises" THEN Raise
    ELSE Caught(GroqCall(env))

OpenAiBranch_NoKeyCheck(env) ==
    IF ~env.openai_import THEN Raise
    ELSE IF env.openai_out = "raises" THEN Raise
    ELSE Return(env.openai_text, "openai")
\* lines 473-499: the body of the second try
OpenAiBranch(env) ==
    IF ~env.openai_import THEN Raise
    ELSE IF ~env.openai_key THEN RunOn
    ELSE IF env.openai_out = "raises" THEN Raise
    ELSE Return(env.openai_text, "openai")

\* lines 403-504: compose_answer_with_llm
ComposeAnswerWithLlm(env, rag_res) ==
    IF Caught(GroqBranch(env)).kind = "return" THEN Caught(GroqBranch(env))
    ELSE IF Caught(OpenAiBranch(env)).kind = "return" THEN Caught(OpenAiBranch(env))
    ELSE Return(rag_res.summary, "summary")

\* what a language model replies
LlmReplies == {"", "You are free on Friday (Calendar)."}

\* the environment of a call: the keys set, the packages installed, how
\* the ChatGroq constructor and the calls to the models end
LlmEnvs ==
    { [groq_key |-> gk, groq_import |-> gi, groq_ctor |-> gc, groq_method |-> gm,
       groq_out |-> go, groq_text |-> gt,
       openai_import |-> oi, openai_key |-> ok, openai_out |-> oo, openai_text |-> ot] :
        gk \in BOOLEAN, gi \in BOOLEAN, gc \in {"made", "made without api_key", "raises"},
        gm \in {"predict", "__call__", "generate", "none"},
        go \in {"text", "raises"}, gt \in LlmReplies,
        oi \in BOOLEAN, ok \in BOOLEAN, oo \in {"text", "raises"},
        ot \in {"Per the KB, stand-ups are daily (KB: faq.md)."} }

RagResults ==
    { AnswerQuery(kb_res, ev_res) :
        kb_res \in { <<>>, [ i \in 1..1 |-> Hit(BuiltChunks(<<FileA>>)[i], 40) ] },
        ev_res \in { [ i \in 1..n |-> EventDoc(SampleEvents[i], 90 - 50 * (i - 1)) ] :
                       n \in 0..Len(SampleEvents) } }

\* main.py line 506
ComposeCall ==
    /\ composeArgs /= NoComposeArgs
    /\ composed = None
    /\ composed' = Some(ComposeAnswerWithLlm(composeArgs.env, composeArgs.rag_res))
    /\ UNCHANGED <<time_token, parsed, evalArgs, evalResult, composeArgs>>

(***************************************************************************)
(* src/frontend/app.py: the chat page.  Streamlit runs the script once for *)
(* every interaction; session_state is what stays from run to run.         *)
(***************************************************************************)
\* what the page takes as the answer to a prompt: the response it makes up
\* when the request failed (lines 111-119), or what POST /query answers
\* (main.py lines 155-518)
RequestFailed == [Json({"answer", "summary", "events", "references", "confidence", "result"})
                    EXCEPT !.answer = "Request failed", !.result = "FAIL"]

CreationAnswers(sl) ==
    IF sl.missing /= <<>> THEN {NeedsMoreInfoResp(sl)}
    ELSE { QueryCreateResp(QueryCreatePayload(sl), CallTool("create_event", createHttp),
                           <<>>, 0) : createHttp \in CreateOutcomes }

QueryAnswers(q, day) ==
    {RequestFailed, ListFailedResp(CallTool("list_events", ToolUnreachable))}
    \cup (IF ClassifyIntent(q) = "CREATE_EVENT" THEN CreationAnswers(ExtractSlots(q, day))
          ELSE IF DetectAmbiguity(q) /= <<>> THEN {AmbiguousResp(DetectAmbiguity(q))}
          ELSE {InformationalResp("No relevant items were found.", <<>>, 0)})

\* dict.get(key, default) on the decoded JSON
GetOr(response, key, default) == IF key \in response.keys THEN response[key] ELSE default

\* lines 139-142
PendingOf(response) ==
    [missing_slots |-> GetOr(response, "missing_slots", <<>>),
     known_fields |-> GetOr(response, "known_fields", NoSlots)]

\* lines 138-142: pending_create after the response to a prompt
PendingAfterQuery(pending, response) ==
    IF GetOr(response, "result", "") = "NEEDS_MORE_INFO" THEN Some(PendingOf(response))
    ELSE pending

PendingAfterSubmit_AlwaysCleared(pending, create_res) == None
\* lines 244-257: pending_create after the response to 'Submit details'
PendingAfterSubmit(pending, create_res) ==
    IF GetOr(create_res, "result", "") = "PASS" THEN None ELSE pending

UserMessage == [role |-> "user", result |-> ""]
AssistantMessage(result) == [role |-> "assistant", result |-> result]

\* lines 190-202, 249-255
MessagesAfterQuery(msgs, response) ==
    msgs \o <<UserMessage, AssistantMessage(GetOr(response, "result", ""))>>

MessagesAfterSubmit(msgs, create_res) ==
    IF GetOr(create_res, "result", "") = "CONFLICT"
    THEN Append(msgs, AssistantMessage("CONFLICT")) ELSE msgs

Untouched == [title |-> None, date |-> None, start_time |-> None]

\* the sidebar field a name of missing_slots stands for
Names(missing) == { missing[i] : i \in 1..Len(missing) }

\* lines 211-225: filled; a field the user left alone holds its default
Filled(pending, typed, empty_date) ==
    [title |-> IF "title" \notin Names(pending.missing_slots) THEN None
               ELSE IF ~IsNone(typed.title) THEN typed.title
               ELSE IF Falsy(pending.known_fields.title) THEN Some("")
               ELSE pending.known_fields.title,
     date |-> IF "date" \notin Names(pending.missing_slots) THEN None
              ELSE IF ~IsNone(typed.date) THEN typed.date
              ELSE empty_date,
     start_time |-> IF "time" \notin Names(pending.missing_slots) THEN None
                    ELSE IF ~IsNone(typed.start_time) THEN typed.start_time
                    ELSE IF Falsy(pending.known_fields.start_time) THEN Some("")
                    ELSE pending.known_fields.start_time]

\* a or b
Either(a, b) == IF Falsy(a) THEN b ELSE a

\* lines 228-241
SubmitPayload(known_fields, filled) ==
    [title |-> Either(Either(filled.title, known_fields.title), Some("(No title)")),
     date |-> Either(filled.date, known_fields.date),
     start_time |-> Either(filled.start_time, known_fields.start_time),
     end_time |-> Either(known_fields.end_time, None),
     description |-> "",
     location |-> Either(known_fields.location, Some(""))]

\* _post_create, lines 26-30, and what POST /create answers: the backend is
\* not reached, the payload is refused (a required string is null), or
\* create_direct answers
CreateDown == [Json({"result", "error"}) EXCEPT !.result = "FAIL", !.error = "Connection refused"]
Refused == [NoResp EXCEPT !.http = 422, !.keys = {"detail"}]

PostCreate(payload) ==
    {CreateDown}
    \cup (IF IsNone(payload.date) \/ IsNone(payload.start_time) THEN {Refused}
          ELSE { DirectCreateResp(CallTool("create_event", createHttp)) :
                   createHttp \in CreateOutcomes })

ChatPrompts == { "schedule a meeting", "schedule a demo named Review tomorrow",
                 "schedule a meeting named Sync tomorrow at 3pm",
                 "what events are on my calendar" }

MaxMessages == 4

NoRun == [kind |-> "none", result |-> "", pending |-> None]

\* lines 97-202: a prompt was entered
ChatPrompt ==
    /\ Len(messages) + 2 <= MaxMessages
    /\ \E q \in ChatPrompts :
       \E response \in QueryAnswers(q, today) :
         /\ pending_create' = PendingAfterQuery(pending_create, response)
         /\ messages' = MessagesAfterQuery(messages, response)
         /\ lastRun' = [kind |-> "prompt", result |-> GetOr(response, "result", ""),
                        pending |-> Some(PendingOf(response))]
    /\ UNCHANGED form

\* lines 205-225: the user typed into a field of the sidebar form
ChatEdit ==
    /\ ~IsNone(pending_create)
    /\ \E typed \in { [form EXCEPT !.title = Some("Sync")],
                       [form EXCEPT !.date = Some("2026-11-06")],
                       [form EXCEPT !.start_time = Some("10:00")] } :
         /\ typed /= form
         /\ form' = typed
    /\ lastRun' = [kind |-> "edit", result |-> "", pending |-> None]
    /\ UNCHANGED <<pending_create, messages>>

\* lines 205-257: 'Submit details' was clicked; the date field left alone
\* shows today's date or nothing, by the version of the library
ChatSubmit ==
    /\ ~IsNone(pending_create)
    /\ Len(messages) < MaxMessages
    /\ \E empty_date \in {None, Some(IsoFormat(today))} :
       \E create_res \in PostCreate(SubmitPayload(Val(pending_create).known_fields,
                                                  Filled(Val(pending_create), form,
                                                         empty_date))) :
         /\ pending_create' = PendingAfterSubmit(pending_create, create_res)
         /\ messages' = MessagesAfterSubmit(messages, create_res)
         /\ lastRun' = [kind |-> "submit", result |-> GetOr(create_res, "result", ""),
                        pending |-> None]
    /\ UNCHANGED form

ChatOff ==
    /\ pending_create = None
    /\ messages = <<>>
    /\ form = Untouched
    /\ lastRun = NoRun

(***************************************************************************)
(* The requests explored.                                                  *)
(***************************************************************************)
Days == { <<2026, 11, 4>>, <<2026, 12, 31>> }

Phrase(a, b) == IF a = "" THEN b ELSE IF b = "" THEN a ELSE a \o " " \o b

Leads == { "schedule a meeting", "Schedule a meeting", "schedule a demo",
           "create a team meeting", "create an event", "reserve a room",
           "add a follow-up",
           "what events are on my calendar", "tell me about the project",
           "show details", "search" }
Marks == { "", "named Demo Review", "called Sync" }
DateWords == { "", "tomorrow", "on 2026-01-06", "on monday" }
TimeWords == { "", "at 3pm", "at 5pm", "at 12am", "23:30 for lunch" }
Tails == { "", "in room 4", "about the search results" }

Queries ==
    { Phrase(l, Phrase(m, Phrase(d, Phrase(t, e)))) :
        l \in Leads, m \in Marks, d \in DateWords, t \in TimeWords, e \in Tails }
    \cup { Phrase(l, Phrase(d, Phrase(m, t))) :
             l \in Leads, d \in DateWords, m \in Marks, t \in TimeWords }

NoQuery == ""
NoPayload == [title |-> "", date |-> "", start_time |-> "", end_time |-> None,
              description |-> "", location |-> ""]

\* CreateEventPayload, lines 38-44
DirectPayloads ==
    { [NoPayload EXCEPT !.title = "Sync", !.date = d, !.start_time = t, !.end_time = e] :
        d \in {"2026-01-06", "2026/01/06", "next friday"},
        t \in {"12:34", "23:30", "9am", ""},
        e \in {None, Some("13:00")} }

NoRequest == [ep |-> "none", query |-> NoQuery, payload |-> NoPayload]

Requests ==
    { [ep |-> "query", query |-> q, payload |-> NoPayload] : q \in Queries }
    \cup { [ep |-> "create", query |-> NoQuery, payload |-> p] : p \in DirectPayloads }

McpOff == InitMcpWith({}) /\ calendar = {}

ApiOff ==
    /\ today \in {CHOOSE d \in Days : TRUE}
    /\ apiReq = NoRequest
    /\ calls = <<>>
    /\ resp = NoResp

FnOff ==
    /\ intent = Unset
    /\ ambiguity = None
    /\ slots = None

InitMcp == InitMcpWith({1}) /\ ApiOff /\ FnOff /\ LibOff /\ ChunkOff /\ RagOff /\ ChatOff

\* the window an accepted payload books
BookedWindow(p) == [s |-> Instant(EventStart(p)), e |-> Instant(EventEnd(p))]

\* two requests in flight at once for windows that overlap, on a calendar
\* with nothing booked
ConcurrentPairs ==
    { rq \in [{1, 2} -> { p \in Payloads : p.valid /\ EndNaive(p) > p.start }] :
        Overlaps(BookedWindow(rq[1]), BookedWindow(rq[2])) }

InitRace ==
    /\ InitMcpWith({1, 2})
    /\ calendar = {}
    /\ req \in ConcurrentPairs
    /\ ApiOff /\ FnOff /\ LibOff /\ ChunkOff /\ RagOff /\ ChatOff

InitApi ==
    /\ McpOff
    /\ today \in Days
    /\ apiReq \in Requests
    /\ calls = <<>>
    /\ resp = NoResp
    /\ FnOff
    /\ LibOff
    /\ ChunkOff
    /\ RagOff
    /\ ChatOff

\* further creation queries for the slot parsing: the time before the date,
\* and the date written with slashes
DateTimeQueries ==
    { "book a call at 5pm on 2026-01-06", "book a call on 2026/01/06 at 5pm",
      "book a call at 23:30 for lunch on 2026/01/06", "book a call on 2026/01/06",
      "book a call tomorrow at 25:75", "book a call named sync at 99 tomorrow" }

InitFn ==
    /\ McpOff
    /\ today \in Days
    /\ apiReq \in { r \in Requests : r.ep = "query" }
                  \cup { [NoRequest EXCEPT !.ep = "query", !.query = q] : q \in DateTimeQueries }
    /\ calls = <<>>
    /\ resp = NoResp
    /\ FnOff
    /\ LibOff
    /\ ChunkOff
    /\ RagOff
    /\ ChatOff

InitLib ==
    /\ McpOff
    /\ ApiOff
    /\ FnOff
    /\ time_token \in Tokens
    /\ parsed = None
    /\ evalArgs \in EvalInputs
    /\ evalResult = None
    /\ composeArgs = NoComposeArgs
    /\ composed = None
    /\ ChunkOff
    /\ RagOff
    /\ ChatOff

InitCompose ==
    /\ McpOff
    /\ ApiOff
    /\ FnOff
    /\ time_token = NoToken
    /\ parsed = None
    /\ evalArgs = NoEvalArgs
    /\ evalResult = None
    /\ composeArgs \in { [none |-> FALSE, env |-> env, rag_res |-> rag_res] :
                          env \in LlmEnvs, rag_res \in RagResults }
    /\ composed = None
    /\ ChunkOff
    /\ RagOff
    /\ ChatOff

\* lines 57-61: a new session
InitChat ==
    /\ McpOff
    /\ today \in Days
    /\ apiReq = NoRequest
    /\ calls = <<>>
    /\ resp = NoResp
    /\ FnOff /\ LibOff /\ ChunkOff /\ RagOff
    /\ pending_create = None
    /\ messages = <<>>
    /\ form = Untouched
    /\ lastRun = NoRun

InitChunk ==
    /\ McpOff
    /\ ApiOff
    /\ FnOff
    /\ LibOff
    /\ chunkArgs \in ChunkInputs
    /\ chunks = None
    /\ loop = NoLoop
    /\ RagOff
    /\ ChatOff

InitChunkLoop ==
    /\ McpOff
    /\ ApiOff
    /\ FnOff
    /\ LibOff
    /\ chunkArgs \in ChunkInputs
    /\ chunks = None
    /\ loop = [NoLoop EXCEPT !.pc = "called"]
    /\ RagOff
    /\ ChatOff

InitRag ==
    /\ McpOff
    /\ ApiOff
    /\ FnOff
    /\ LibOff
    /\ ChunkOff
    /\ kbDir \in KbDirs
    /\ cacheFiles \in Caches
    /\ ragPc = "import"
    /\ starts = 1
    /\ saveLog = NoSaveLog
    /\ documents = <<>>
    /\ kb_chunks = <<>>
    /\ kb_chunk_embeddings = <<>>
    /\ ragCall = NoRagCall
    /\ hits = NoHits
    /\ ChatOff

NextApi ==
    \/ QueryAgent /\ UNCHANGED <<mcpVars, libVars, chunkVars, ragVars, chatVars>>
    \/ CreateDirect /\ UNCHANGED <<mcpVars, fnVars, libVars, chunkVars, ragVars, chatVars>>

NextFn ==
    \/ Classify /\ UNCHANGED <<mcpVars, apiVars, libVars, chunkVars, ragVars, chatVars>>
    \/ Detect /\ UNCHANGED <<mcpVars, apiVars, libVars, chunkVars, ragVars, chatVars>>
    \/ Extract /\ UNCHANGED <<mcpVars, apiVars, libVars, chunkVars, ragVars, chatVars>>

NextLib ==
    \/ ParseTimeCall /\ UNCHANGED <<mcpVars, apiVars, fnVars, chunkVars, ragVars, chatVars>>
    \/ EvaluateCall /\ UNCHANGED <<mcpVars, apiVars, fnVars, chunkVars, ragVars, chatVars>>

NextCompose == ComposeCall /\ UNCHANGED <<mcpVars, apiVars, fnVars, chunkVars, ragVars, chatVars>>

NextChunkLoop ==
    \/ ChunkEnter /\ UNCHANGED <<mcpVars, apiVars, fnVars, libVars, ragVars, chatVars>>
    \/ ChunkIterate /\ UNCHANGED <<mcpVars, apiVars, fnVars, libVars, ragVars, chatVars>>

NextChat ==
    \/ ChatPrompt /\ UNCHANGED <<mcpVars, apiVars, fnVars, libVars, chunkVars, ragVars>>
    \/ ChatEdit /\ UNCHANGED <<mcpVars, apiVars, fnVars, libVars, chunkVars, ragVars>>
    \/ ChatSubmit /\ UNCHANGED <<mcpVars, apiVars, fnVars, libVars, chunkVars, ragVars>>

NextChunk == ChunkTextCall /\ UNCHANGED <<mcpVars, apiVars, fnVars, libVars, ragVars, chatVars>>

NextRag ==
    \/ Startup /\ UNCHANGED <<mcpVars, apiVars, fnVars, libVars, chunkVars, chatVars>>
    \/ StartupCrash /\ UNCHANGED <<mcpVars, apiVars, fnVars, libVars, chunkVars, chatVars>>
    \/ Restart /\ UNCHANGED <<mcpVars, apiVars, fnVars, libVars, chunkVars, chatVars>>
    \/ RetrieveKbCall /\ UNCHANGED <<mcpVars, apiVars, fnVars, libVars, chunkVars, chatVars>>
    \/ RetrieveEventsCall /\ UNCHANGED <<mcpVars, apiVars, fnVars, libVars, chunkVars, chatVars>>

SpecMcp == InitMcp /\ [][NextMcp]_vars

\* create_event is a plain def: the server runs each request on a thread of
\* its pool, so the provider calls of two requests interleave freely
NextRace ==
    \/ \E r \in DOMAIN req : McpNoService(r) /\ UNCHANGED <<apiVars, fnVars, libVars, chunkVars, ragVars, chatVars>>
    \/ \E r \in DOMAIN req : McpFreeBusy(r) /\ UNCHANGED <<apiVars, fnVars, libVars, chunkVars, ragVars, chatVars>>
    \/ \E r \in DOMAIN req : McpProbe(r) /\ UNCHANGED <<apiVars, fnVars, libVars, chunkVars, ragVars, chatVars>>
    \/ \E r \in DOMAIN req : McpInsert(r) /\ UNCHANGED <<apiVars, fnVars, libVars, chunkVars, ragVars, chatVars>>

SpecRace == InitRace /\ [][NextRace]_vars

SpecApi == InitApi /\ [][NextApi]_vars

SpecFn == InitFn /\ [][NextFn]_vars

SpecLib == InitLib /\ [][NextLib]_vars

SpecCompose == InitCompose /\ [][NextCompose]_vars

SpecChunk == InitChunk /\ [][NextChunk]_vars

SpecChat == InitChat /\ [][NextChat]_vars

\* the interpreter keeps running the call: a step that can be taken is taken
SpecChunkLoop ==
    InitChunkLoop /\ [][NextChunkLoop]_vars /\ WF_loop(ChunkEnter) /\ WF_loop(ChunkIterate)

SpecRag == InitRag /\ [][NextRag]_vars

(***************************************************************************)
(* The window a request asks for, as instants.                             *)
(***************************************************************************)
ReqWindow(r) == [s |-> Instant(EventStart(req[r])), e |-> Instant(EventEnd(req[r]))]

FbAnswered(r) == fbCall[r].made /\ fbCall[r].res.status = "ok"

\* C1: events().insert is invoked only after a freebusy query for the
\* requested window returned an empty busy list; when that query returns a
\* non-empty busy list or fails, the request ends with a conflict report or
\* an error, insert is never invoked, and no step of the request changes
\* the calendar.
C1_InsertOnlyWhenFree ==
    /\ [](\A r \in DOMAIN req :
            /\ insertCalls[r] > 0 =>
                 /\ FbAnswered(r)
                 /\ fbCall[r].res.busy = {}
                 /\ Instant(fbCall[r].tmin) = ReqWindow(r).s
                 /\ Instant(fbCall[r].tmax) = ReqWindow(r).e
            /\ (fbCall[r].made /\ fbCall[r].res.status = "error") =>
                 /\ insertCalls[r] = 0
                 /\ pc[r] = "done"
                 /\ mcpResp[r].kind = "error"
            /\ (FbAnswered(r) /\ fbCall[r].res.busy /= {}) =>
                 /\ insertCalls[r] = 0
                 /\ pc[r] \in {"probing", "done"}
                 /\ pc[r] = "done" => mcpResp[r].kind = "conflict")
    /\ [][\A r \in DOMAIN req :
            (pc'[r] /= pc[r] \/ probes'[r] /= probes[r]) /\ calendar' /= calendar
               => /\ FbAnswered(r)
                  /\ fbCall[r].res.busy = {}
                  /\ insertCalls'[r] = insertCalls[r] + 1]_vars

C1_Witness ==
    \E r \in DOMAIN req :
        /\ mcpResp[r].kind = "created"
        /\ insertCalls[r] = 1
        /\ fbCall[r].cal /= {}
        /\ mcpResp[r].event \in calendar

\* C5: on conflict at most 5 windows are probed, the k-th being the
\* requested window shifted by k whole hours with the request's duration;
\* at most 3 suggestions are returned, in increasing start order; probing
\* goes on only while fewer than 3 suggestions and fewer than 5 probes
\* exist, and the report is returned at the 3rd suggestion or the 5th probe.
C5_ProbeAndSuggestionLimits ==
    \A r \in DOMAIN req :
        LET P == probes[r]
            S == suggestions[r]
        IN /\ Len(P) <= 5
           /\ \A k \in 1..Len(P) :
                /\ Instant(P[k].start) = ReqWindow(r).s + k * TicksPerHour
                /\ Instant(P[k].end) - Instant(P[k].start)
                      = ReqWindow(r).e - ReqWindow(r).s
           /\ Len(S) <= 3
           /\ \A a, b \in 1..Len(S) :
                a < b => Instant(S[a].start) < Instant(S[b].start)
           /\ pc[r] = "probing" => Len(S) < 3 /\ Len(P) < 5 /\ probeIdx[r] = Len(P) + 1
           /\ mcpResp[r].kind = "conflict" =>
                /\ mcpResp[r].suggestions = S
                /\ Len(S) = 3 \/ Len(P) = 5
                /\ Len(S) = 3 => P[Len(P)].start = S[3].start

C5_Witness ==
    \E r \in DOMAIN req :
        /\ mcpResp[r].kind = "conflict"
        /\ Len(mcpResp[r].suggestions) = 3
        /\ Len(probes[r]) = 4

\* C6: every suggested window was the window of one of the request's own
\* probes, that probe returned an empty busy list, and no busy interval of
\* the calendar overlapped the window when the probe was made; the window
\* of a probe that raised is never suggested.
C6_SuggestionsConfirmedFree ==
    \A r \in DOMAIN req :
        LET P == probes[r]
            S == IF mcpResp[r].kind = "conflict"
                 THEN mcpResp[r].suggestions ELSE suggestions[r]
        IN /\ \A k \in 1..Len(S) :
                \E j \in 1..Len(P) :
                   /\ P[j].start = S[k].start
                   /\ P[j].end = S[k].end
                   /\ P[j].res.status = "ok"
                   /\ P[j].res.busy = {}
                   /\ \A e \in P[j].cal :
                        ~Overlaps(e, [s |-> Instant(S[k].start), e |-> Instant(S[k].end)])
           /\ \A j \in 1..Len(P) :
                P[j].res.status = "error" =>
                   \A k \in 1..Len(S) : S[k].start /= P[j].start

C6_Witness ==
    \E r \in DOMAIN req :
        /\ mcpResp[r].kind = "conflict"
        /\ Len(mcpResp[r].suggestions) >= 1
        /\ \E j \in 1..Len(probes[r]) : probes[r][j].res.status = "error"
        /\ \E j \in 1..Len(probes[r]) :
             probes[r][j].res.status = "ok" /\ probes[r][j].res.busy /= {}

\* C7: when the provider answers the availability query, the request is
\* reported as a conflict exactly when its window overlaps a busy interval
\* of the calendar (touching endpoints do not count) and goes on to insert
\* exactly when it overlaps none; every returned busy interval overlaps
\* the requested window.
C7_ConflictIffOverlap ==
    \A r \in DOMAIN req :
        FbAnswered(r) =>
            LET over == \E e \in fbCall[r].cal : Overlaps(e, ReqWindow(r))
                conflict == pc[r] = "probing" \/ mcpResp[r].kind = "conflict"
                inserts == pc[r] = "inserting" \/ insertCalls[r] > 0
            IN /\ conflict <=> over
               /\ inserts <=> ~over
               /\ \A b \in fbCall[r].res.busy : Overlaps(b, ReqWindow(r))
               /\ mcpResp[r].kind = "conflict" =>
                     mcpResp[r].conflicts = fbCall[r].res.busy

C7_Witness ==
    \E r \in DOMAIN req :
        /\ mcpResp[r].kind = "created"
        /\ \E e \in fbCall[r].cal : e.e = ReqWindow(r).s
        /\ \E e \in fbCall[r].cal : e.s = ReqWindow(r).e

C7_WitnessInside ==
    \E r \in DOMAIN req :
        /\ mcpResp[r].kind = "conflict"
        /\ \E e \in fbCall[r].cal :
             e.s < ReqWindow(r).s /\ ReqWindow(r).e < e.e

(***************************************************************************)
(* The backend: what a finished request shows.                             *)
(***************************************************************************)
Answered(ep) == apiReq.ep = ep /\ resp.http /= 0

CreateCalls == {i \in 1..Len(calls) : calls[i].tool = "create_event"}

RequiredFields == {"title", "date", "start_time"}

\* the known_fields key a name of missing_slots stands for
SlotField(name) == IF name = "time" THEN "start_time" ELSE name

AbsentFields(known) == {f \in RequiredFields : Falsy(known[f])}

\* the three required fields as a record of optional strings holds them
Extracted(sl) == [f \in RequiredFields |-> sl[f]]

C2_WitnessComplete ==
    /\ Answered("query")
    /\ CreateCalls = {2}
    /\ calls[2].payload.title = Some("Sync")
    /\ calls[2].payload.start_time = Some("15:00")
    /\ resp.result = "PASS"

\* C3: when the create_event call of /create returns an error marker, the
\* endpoint answers 200 with result FAIL and the tool's message in "error",
\* and reports neither PASS nor CONFLICT; /create always answers 200.
C3_CreateFailureIsReported ==
    Answered("create") =>
        /\ resp.http = 200
        /\ Len(calls) = 1 /\ calls[1].tool = "create_event"
        /\ calls[1].error /= "" =>
             /\ resp.result = "FAIL"
             /\ resp.keys = {"result", "error"}
             /\ resp.error = calls[1].error
             /\ Contains(resp.error, "Failed to reach MCP tool 'create_event'")

C3_Witness ==
    /\ Answered("create")
    /\ calls[1].error /= ""
    /\ calls[1].payload.date = "2026-01-06"
    /\ calls[1].payload.end_time = Some("13:34")
    /\ resp.result = "FAIL"
    /\ Contains(resp.error, "Connection refused")

\* the response /query gives when list_events failed
IsListFailure(r) ==
    /\ r.result = "FAIL"
    /\ r.confidence = 0
    /\ "events" \in r.keys
    /\ r.events = <<>>

\* C4: when the list_events call of /query fails, the response is FAIL with
\* confidence 0.0 and an empty events list and list_events is the only tool
\* call made, whatever the intent; when list_events succeeds, with zero
\* events or more, that response is never given.
C4_ListFailureIsDistinct ==
    Answered("query") =>
        /\ Len(calls) >= 1 /\ calls[1].tool = "list_events"
        /\ calls[1].error /= "" => IsListFailure(resp) /\ Len(calls) = 1
        /\ calls[1].error = "" => ~IsListFailure(resp)

C4_Witness ==
    /\ Answered("query")
    /\ apiReq.query = "schedule a meeting named Demo Review tomorrow at 3pm"
    /\ calls[1].error /= ""
    /\ IsListFailure(resp)
    /\ Len(calls) = 1

\* list_events succeeded with zero events
C4_WitnessZeroEvents ==
    /\ Answered("query")
    /\ calls[1].error = ""
    /\ "events" \in resp.keys
    /\ resp.events = <<>>
    /\ resp.result = "PASS"

(***************************************************************************)
(* agent.py and the slot extractor.                                        *)
(***************************************************************************)
Intents == {"CREATE_EVENT", "LIST_EVENTS", "GET_EVENT_DETAILS", "SEARCH_EVENTS", "RAG_ONLY"}

\* C8: classify_intent answers one of the five intents, by the first rule
\* that matches the query read case-insensitively: a creation verb gives
\* CREATE_EVENT whatever else the query holds; otherwise listing or calendar
\* vocabulary gives LIST_EVENTS; otherwise "details" gives GET_EVENT_DETAILS;
\* otherwise "search" gives SEARCH_EVENTS; otherwise RAG_ONLY.
C8_ClassifyPriority ==
    intent /= Unset =>
        LET q == Lower(apiReq.query)
            creation == \E w \in {"create", "schedule", "make", "add", "book", "set up",
                                  "reserve"} : Contains(q, w)
            listing == \E w \in {"list", "upcoming", "calendar", "event"} : Contains(q, w)
            details == Contains(q, "details")
            search == Contains(q, "search")
        IN /\ intent \in Intents
           /\ intent = "CREATE_EVENT" <=> creation
           /\ intent = "LIST_EVENTS" <=> ~creation /\ listing
           /\ intent = "GET_EVENT_DETAILS" <=> ~creation /\ ~listing /\ details
           /\ intent = "SEARCH_EVENTS" <=> ~creation /\ ~listing /\ ~details /\ search
           /\ intent = "RAG_ONLY" <=> ~creation /\ ~listing /\ ~details /\ ~search
           /\ apiReq.query = "schedule a demo tomorrow at 5pm" => intent = "CREATE_EVENT"
           /\ apiReq.query = "what events are on my calendar" => intent = "LIST_EVENTS"
           /\ apiReq.query = "tell me about the project" => intent = "RAG_ONLY"

C8_Witness ==
    /\ apiReq.query = "Schedule a meeting about the search results"
    /\ intent = "CREATE_EVENT"

\* each rule decides some query
C8_WitnessEachIntent ==
    /\ apiReq.query = "show details about the search results"
    /\ intent = "GET_EVENT_DETAILS"

\* a clock time written out: digits with am or pm, or hours:minutes
HasClockTime(q) ==
    \E i \in 1..Len(q) :
        /\ IsDigit(Ch(q, i))
        /\ \/ Sub(q, i + 1 + WsRun(q, i + 1), i + 2 + WsRun(q, i + 1)) \in {"am", "pm"}
           \/ Ch(q, i + 1) = ":" /\ IsDigit(Ch(q, i + 2)) /\ IsDigit(Ch(q, i + 3))

HasDayName(q) == ContainsAny(q, DayNames)

HasRelativeDay(q) == ContainsAny(q, {"today", "tomorrow", "yesterday"})

HasDashedDate(q) == \E i \in 1..Len(q) : DatePatternAt(q, i, {"-"})

\* C9 as stated: detect_ambiguity answers nothing for a query without a
\* creation-style verb; for a query with one it lists "time" exactly when no
\* clock time, day name or relative day token appears, and "date" exactly
\* when no today/tomorrow, day name or dashed date appears.
C9_AmbiguityAsStated ==
    ambiguity /= None =>
        LET q == apiReq.query
            a == {Val(ambiguity)[i] : i \in 1..Len(Val(ambiguity))}
        IN IF ~ContainsAny(q, AmbiguityVerbs) THEN a = {}
           ELSE /\ "time" \in a <=>
                     ~(HasClockTime(q) \/ HasDayName(q) \/ HasRelativeDay(q))
                /\ "date" \in a <=>
                     ~(Contains(q, "today") \/ Contains(q, "tomorrow") \/ HasDayName(q)
                       \/ HasDashedDate(q))

\* C10 as stated: the title after a marker (named, called) and before the
\* date and time words is extracted exactly; for "schedule a meeting named
\* Demo Review tomorrow at 3pm" the title is "Demo Review", the date is
\* tomorrow, the start 15:00, the end 16:00 and nothing is missing.
C10_MarkedTitleAsStated ==
    slots /= None =>
        /\ \A x \in {"Demo Review", "Sync"}, m \in {"named", "called"} :
             apiReq.query = "schedule a meeting " \o m \o " " \o x \o " tomorrow at 3pm"
                => Val(slots).title = Some(x)
        /\ apiReq.query = "schedule a meeting named Demo Review tomorrow at 3pm" =>
             /\ Val(slots).date = Some(IsoFormat(NextDay(today)))
             /\ Val(slots).start_time = Some("15:00")
             /\ Val(slots).end_time = Some("16:00")
             /\ Val(slots).missing = <<>>

(***************************************************************************)
(* Slot parsing of a query with an explicit calendar date and a clock time.*)
(***************************************************************************)
ExplicitDates == { [text |-> "2026-01-06", iso |-> "2026-01-06"],
                   [text |-> "2026/01/06", iso |-> "2026-01-06"] }

ClockWords == { [text |-> "at 3pm", clock |-> "15:00"],
                [text |-> "at 5pm", clock |-> "17:00"],
                [text |-> "at 12am", clock |-> "00:00"],
                [text |-> "23:30 for lunch", clock |-> "23:30"] }

\* C11 as stated: for a creation query that gives an explicit calendar date
\* (YYYY-MM-DD or YYYY/MM/DD) and a clock time, the extracted date is that
\* date and the extracted start time is that clock time, never a value read
\* from the digits of the date.
C11_DateAndClockTimeAsStated ==
    slots /= None =>
        \A d \in ExplicitDates, t \in ClockWords :
            (/\ Contains(apiReq.query, d.text)
             /\ Contains(apiReq.query, t.text)
             /\ ~HasRelativeDay(Lower(apiReq.query)))
            => /\ Val(slots).date = Some(d.iso)
               /\ Val(slots).start_time = Some(t.clock)

(***************************************************************************)
(* parse_time.                                                             *)
(***************************************************************************)
\* the hour the claim gives a token written with hour h and the marker a
NormalHour(h, a) ==
    IF a = "pm" THEN (IF h < 12 THEN h + 12 ELSE h)
    ELSE IF a = "am" THEN (IF h = 12 THEN 0 ELSE h)
    ELSE h

\* C12: parse_time answers HH:MM on the 24-hour clock: pm adds 12 to an hour
\* below 12 and leaves 12 as it is, am turns 12 into 00 and leaves the other
\* hours, a token without a marker keeps its hour, and the minutes are 00
\* where the token has none.
C12_ParseTimeNormalises ==
    parsed /= None =>
        /\ Val(parsed) /= None
        /\ Len(Val(Val(parsed))) = 5
        /\ Ch(Val(Val(parsed)), 3) = ":"
        /\ \A i \in {1, 2, 4, 5} : IsDigit(Ch(Val(Val(parsed)), i))
        /\ ToInt(Sub(Val(Val(parsed)), 1, 2)) = NormalHour(time_token.hour, time_token.marker)
        /\ ToInt(Sub(Val(Val(parsed)), 4, 5)) =
               (IF IsNone(time_token.minute) THEN 0 ELSE Val(time_token.minute))

\* "12 pm" parsed: noon stays 12:00
C12_Witness ==
    /\ time_token.text = "12 pm"
    /\ parsed = Some(Some("12:00"))

\* "5:30pm" parsed: 17:30
C12_WitnessAfternoon ==
    /\ time_token.text = "5:30pm"
    /\ parsed = Some(Some("17:30"))

\* "12am" parsed: midnight is 00:00
C12_WitnessMidnight ==
    /\ time_token.text = "12am"
    /\ parsed = Some(Some("00:00"))

(***************************************************************************)
(* The default end time of the slot parsing.                               *)
(***************************************************************************)
\* C13: an extracted start time HH:MM comes with the end time
\* ((HH + 1) mod 24):MM, the minutes kept and the hour wrapping past
\* midnight; the end time is absent exactly when the start time is.
C13_EndIsStartPlusOneHour ==
    slots /= None =>
        /\ IsNone(Val(slots).end_time) <=> IsNone(Val(slots).start_time)
        /\ ~IsNone(Val(slots).start_time) =>
             /\ Len(Val(Val(slots).start_time)) = 5
             /\ Len(Val(Val(slots).end_time)) = 5
             /\ ToInt(Sub(Val(Val(slots).end_time), 1, 2)) =
                    (ToInt(Sub(Val(Val(slots).start_time), 1, 2)) + 1) % 24
             /\ Sub(Val(Val(slots).end_time), 3, 5) = Sub(Val(Val(slots).start_time), 3, 5)

\* a start in the last hour of the day: 23:30 ends at 00:30
C13_Witness ==
    /\ slots /= None
    /\ Val(slots).start_time = Some("23:30")
    /\ Val(slots).end_time = Some("00:30")

\* a query without any digit: neither a start nor an end time
C13_WitnessAbsent ==
    /\ slots /= None
    /\ apiReq.query = "schedule a meeting tomorrow"
    /\ IsNone(Val(slots).start_time)
    /\ IsNone(Val(slots).end_time)

(***************************************************************************)
(* evaluate_response.                                                      *)
(***************************************************************************)
\* the answers of EvalAnswers that name calendar data
CalendarPhrased == { "Calendar data: 2 events tomorrow", "Your Google Calendar is free" }

Ungrounded == evalArgs.ndocs = 0 /\ ~evalArgs.tool_used
Unbacked == evalArgs.answer \in CalendarPhrased /\ ~evalArgs.tool_used
Failings == (IF Ungrounded THEN 1 ELSE 0) + (IF Unbacked THEN 1 ELSE 0)

\* C14: the confidence is max(0, 1 - 0.2 * issueCount) and pass is
\* issueCount = 0, issueCount counting the two checks; so the confidence is
\* one of 1.0, 0.8, 0.6 and pass holds exactly when it is 1.0.
C14_ConfidenceFromIssueCount ==
    evalResult /= None =>
        /\ Val(evalResult).confidence = Max(0, 10 - 2 * Failings)
        /\ Val(evalResult).pass = (Failings = 0)
        /\ Val(evalResult).confidence \in {10, 8, 6}
        /\ Val(evalResult).pass <=> Val(evalResult).confidence = 10

\* both checks fail: confidence 0.6
C14_Witness ==
    /\ evalResult /= None
    /\ Ungrounded /\ Unbacked
    /\ Val(evalResult).confidence = 6
    /\ ~Val(evalResult).pass

\* C15: without documents and without a tool the "no grounding" issue is
\* reported (confidence 0.8 and no pass where it is the only issue); one
\* document or the tool flag removes it, and the result is confidence 1.0
\* with pass whenever no other issue remains.
C15_GroundingIssue ==
    evalResult /= None =>
        /\ Ungrounded =>
             /\ Contains(Val(evalResult).explanation, "No RAG grounding")
             /\ ~Unbacked => Val(evalResult).confidence = 8 /\ ~Val(evalResult).pass
        /\ (evalArgs.ndocs >= 1 \/ evalArgs.tool_used) =>
             /\ ~Contains(Val(evalResult).explanation, "No RAG grounding")
             /\ ~Unbacked => /\ Val(evalResult).confidence = 10
                             /\ Val(evalResult).pass
                             /\ Val(evalResult).explanation = "Answer is properly grounded"

\* a retrieved document, no tool, an answer without calendar phrases: 1.0
C15_Witness ==
    /\ evalResult /= None
    /\ evalArgs.ndocs >= 1 /\ ~evalArgs.tool_used /\ ~Unbacked
    /\ Val(evalResult).confidence = 10
    /\ Val(evalResult).pass

\* no document and no tool: the issue alone, 0.8
C15_WitnessUngrounded ==
    /\ evalResult /= None
    /\ Ungrounded /\ ~Unbacked
    /\ Val(evalResult).confidence = 8
    /\ Val(evalResult).explanation = "No RAG grounding"

(***************************************************************************)
(* The retrievers.                                                         *)
(***************************************************************************)
ReturnedBy(fn) == ragCall.fn = fn /\ hits.returned

\* C16 as stated: for every index, query, threshold and top_k >= 0,
\* retrieve_kb returns no hit whose score is below the threshold and at most
\* top_k hits.
C16_KbHitsBoundedAsStated ==
    ReturnedBy("retrieve_kb") =>
        /\ \A k \in 1..Len(hits.results) : hits.results[k].score >= ragCall.threshold
        /\ Len(hits.results) <= ragCall.top_k

\* where the chunk of a hit stands in kb_chunks
ChunkPosition(hit) == CHOOSE i \in 1..Len(kb_chunks) : kb_chunks[i].id = hit.id

DistinctChunkIds ==
    \A i, j \in 1..Len(kb_chunks) : kb_chunks[i].id = kb_chunks[j].id => i = j

\* C17 as stated: retrieve_kb returns its hits in descending score order, and
\* hits of equal score in the order of their chunks, the lower index first.
C17_KbOrderAsStated ==
    (ReturnedBy("retrieve_kb") /\ DistinctChunkIds) =>
        \A k, l \in 1..Len(hits.results) :
            k < l => \/ hits.results[k].score > hits.results[l].score
                     \/ /\ hits.results[k].score = hits.results[l].score
                        /\ ChunkPosition(hits.results[k]) < ChunkPosition(hits.results[l])

\* the highest score of the call's events
BestScore == SeqMax(ragCall.scores)

Window(ws, k, size, step) ==
    SubSeq(ws, (k - 1) * step + 1, Min((k - 1) * step + size, Len(ws)))

\* C19: with 0 <= overlap < chunk_size the chunks cover every word in order:
\* the first starts at word 0, each next one starts chunk_size - overlap
\* words after the one before, none holds more than chunk_size words, and
\* the last one ends at the final word.
C19_ChunksCoverWords ==
    (chunks /= None /\ chunkArgs.overlap < chunkArgs.chunk_size) =>
        IF chunkArgs.words = <<>> THEN Val(chunks) = <<>>
        ELSE /\ Len(Val(chunks)) >= 1
             /\ \A k \in 1..Len(Val(chunks)) :
                  /\ Val(chunks)[k] =
                        Join(Window(chunkArgs.words, k, chunkArgs.chunk_size,
                                    chunkArgs.chunk_size - chunkArgs.overlap))
                  /\ Len(Split(Val(chunks)[k])) \in 1..chunkArgs.chunk_size
             /\ (Len(Val(chunks)) - 1) * (chunkArgs.chunk_size - chunkArgs.overlap)
                    + chunkArgs.chunk_size >= Len(chunkArgs.words)

\* six words in windows of three that overlap by one: the last window is short
C19_Witness ==
    /\ chunkArgs.chunk_size = 3 /\ chunkArgs.overlap = 1
    /\ chunkArgs.text = " alpha  beta  gamma  delta  epsilon  zeta "
    /\ chunks = Some(<<"alpha beta gamma", "gamma delta epsilon", "epsilon zeta">>)

(***************************************************************************)
(* The cache at startup.                                                   *)
(***************************************************************************)
\* both cache files are there and readable
CacheReadable(cache) ==
    /\ ~IsNone(cache.meta) /\ Val(cache.meta).readable
    /\ ~IsNone(cache.emb) /\ Val(cache.emb).readable

\* the vectors and the metadata records of the cache differ in number
CacheMismatched(cache) ==
    /\ CacheReadable(cache)
    /\ Len(Val(cache.meta).content) /= Len(Val(cache.emb).content)

\* C20 as stated: a start that finds a cache whose number of vectors differs
\* from its number of metadata records treats the cache as invalid and
\* rebuilds the index from the knowledge base instead of loading it.
C20_MismatchedCacheRebuiltAsStated ==
    [][ (/\ ragPc = "import" /\ ragPc' = "ready"
         /\ ~IsNone(kbDir)
         /\ CacheMismatched(cacheFiles))
        => /\ kb_chunks' = BuiltChunks(Val(kbDir))
           /\ kb_chunk_embeddings' = Rows(BuiltChunks(Val(kbDir))) ]_vars

\* both cache files are there and one of them cannot be read
CacheUnreadable(cache) ==
    /\ ~IsNone(cache.meta) /\ ~IsNone(cache.emb)
    /\ ~Val(cache.meta).readable \/ ~Val(cache.emb).readable

\* C21 as stated: a start whose cache load fails on an unreadable file
\* rebuilds the index, and the index in memory is co-indexed: kb_chunks
\* holds exactly the freshly built chunks, one per embedding row in the same
\* order, and nothing of the failed load.
C21_FailedLoadLeavesNothingAsStated ==
    [][ (/\ ragPc = "import" /\ ragPc' = "ready"
         /\ ~IsNone(kbDir)
         /\ CacheUnreadable(cacheFiles))
        => /\ kb_chunks' = BuiltChunks(Val(kbDir))
           /\ kb_chunk_embeddings' = Rows(kb_chunks') ]_vars

GroqWorks(env) ==
    /\ env.groq_key /\ env.groq_import /\ env.groq_ctor /= "raises"
    /\ env.groq_method /= "none" /\ env.groq_out = "text"

OpenAiWorks(env) == env.openai_key /\ env.openai_import /\ env.openai_out = "text"

\* C23: the answer is Groq's whenever Groq works, OpenAI's only when Groq
\* is unavailable or fails and OpenAI works, and the deterministic summary
\* of answer_query whenever neither works; the call always returns a text
\* and never raises, also with no language model configured.
C23_FallbackChain ==
    ~IsNone(composed) =>
        /\ Val(composed).kind = "return"
        /\ Val(composed).by =
              (IF GroqWorks(composeArgs.env) THEN "groq"
               ELSE IF OpenAiWorks(composeArgs.env) THEN "openai" ELSE "summary")
        /\ Val(composed).text =
              (IF GroqWorks(composeArgs.env) THEN composeArgs.env.groq_text
               ELSE IF OpenAiWorks(composeArgs.env) THEN composeArgs.env.openai_text
               ELSE composeArgs.rag_res.summary)
        /\ composeArgs.rag_res.summary /= ""

\* Groq is configured and fails, OpenAI is not configured: the summary
C23_Witness ==
    /\ ~IsNone(composed)
    /\ composeArgs.env.groq_key /\ composeArgs.env.groq_import
    /\ composeArgs.env.groq_out = "raises" /\ composeArgs.env.groq_method = "predict"
    /\ composeArgs.env.groq_ctor = "made"
    /\ ~composeArgs.env.openai_key
    /\ Val(composed).by = "summary"
    /\ Len(composeArgs.rag_res.event_results) = 2

\* no language model is configured at all
C23_WitnessNoModel ==
    /\ ~IsNone(composed)
    /\ ~composeArgs.env.groq_key /\ ~composeArgs.env.openai_key
    /\ ~composeArgs.env.openai_import
    /\ Val(composed).text = composeArgs.rag_res.summary

\* Groq fails and OpenAI answers
C23_WitnessOpenAi ==
    /\ ~IsNone(composed)
    /\ composeArgs.env.groq_key /\ composeArgs.env.groq_ctor = "raises"
    /\ Val(composed).by = "openai"

(***************************************************************************)
(* Concurrent creations.                                                   *)
(***************************************************************************)
Inserted(r) == mcpResp[r].kind = "created"

\* C24 as stated: of two create_event requests for overlapping windows
\* handled at once against the same calendar, at most one inserts its
\* event, however their freebusy and insert calls interleave.
C24_AtMostOneInsertsAsStated ==
    \A r1, r2 \in DOMAIN req :
        (/\ r1 /= r2
         /\ Overlaps(BookedWindow(req[r1]), BookedWindow(req[r2])))
        => ~(Inserted(r1) /\ Inserted(r2))

(***************************************************************************)
(* The clock times of a creation.                                          *)
(***************************************************************************)
\* an "HH:MM" text with hour 0..23 and minute 0..59
ValidClock(t) ==
    /\ Len(t) = 5 /\ Ch(t, 3) = ":"
    /\ \A i \in {1, 2, 4, 5} : IsDigit(Ch(t, i))
    /\ ToInt(Sub(t, 1, 2)) \in 0..23
    /\ ToInt(Sub(t, 4, 5)) \in 0..59

\* C25 as stated: every start_time that slot extraction produces is a valid
\* 24-hour clock time, hour 0..23 and minute 0..59, whatever digit token
\* the time pattern matched.
C25_StartTimeValidAsStated ==
    (slots /= None /\ ~IsNone(Val(slots).start_time))
        => ValidClock(Val(Val(slots).start_time))

(***************************************************************************)
(* Ambiguity and grading of /query responses.                              *)
(***************************************************************************)
\* C27: for a query whose intent is not CREATE_EVENT detect_ambiguity
\* returns the empty list, and /query never returns the "query is
\* ambiguous" response with confidence 0.6.
C27_NoAmbiguityOutsideCreate ==
    /\ (intent \notin {Unset, "CREATE_EVENT"} /\ ~IsNone(ambiguity))
          => Val(ambiguity) = <<>>
    /\ resp.http /= 0 =>
          /\ resp.confidence /= 6
          /\ \A missing \in {<<"time">>, <<"date">>, <<"time", "date">>} :
                resp /= AmbiguousResp(missing)

\* an informational query went past the ambiguity check and was answered
C27_Witness ==
    /\ intent = "SEARCH_EVENTS"
    /\ ambiguity = Some(<<>>)
    /\ resp.result = "PASS"
    /\ resp.answer \in AnswerTexts

\* minutes after midnight of an "HH:MM" text
ClockMinutes(t) == 60 * ToInt(Sub(t, 1, 2)) + ToInt(Sub(t, 4, 5))

\* C26 as stated: in every payload /query sends to create_event the end
\* instant is strictly later than the start instant; both are read on the
\* payload's one date, so the end clock time is later than the start clock
\* time, also for a start in the hour from 23:00.
C26_EndAfterStartAsStated ==
    (apiReq.ep = "query") =>
        \A i \in CreateCalls :
            ClockMinutes(Val(calls[i].payload.end_time))
                > ClockMinutes(Val(calls[i].payload.start_time))

\* C28: a /query response of the informational path or of a successful
\* creation has confidence 1.0 and result PASS, whatever the answer text
\* and whether or not anything was retrieved; result FAIL is returned only
\* where a tool call failed.
C28_GradedPassWithTool ==
    Answered("query") =>
        /\ ("kb_hits" \in resp.keys \/ "created" \in resp.keys)
              => (resp.confidence = 10 /\ resp.result = "PASS")
        /\ resp.result = "FAIL"
              => (calls /= <<>> /\ calls[Len(calls)].error /= "")

\* an informational answer that names Google Calendar
C28_Witness ==
    /\ Answered("query")
    /\ "kb_hits" \in resp.keys
    /\ Contains(Lower(resp.answer), "google calendar")
    /\ resp.result = "PASS"

\* a creation that went through
C28_WitnessCreated ==
    /\ Answered("query")
    /\ "created" \in resp.keys
    /\ resp.confidence = 10

\* the calendar tool could not be reached
C28_WitnessFail ==
    /\ Answered("query")
    /\ resp.result = "FAIL"
    /\ Len(calls) = 2

(***************************************************************************)
(* The loop of chunk_text.                                                 *)
(***************************************************************************)
\* C29: chunk_text returns for every text, every chunk_size >= 1 and every
\* overlap >= 0, also with overlap >= chunk_size, and from one iteration of
\* its loop to the next the start index grows.
C29_ChunkLoopTerminates ==
    /\ <>(loop.pc = "returned")
    /\ [][ (loop.pc = "while" /\ loop'.pc = "while") => loop'.start > loop.start ]_vars

\* overlap above chunk_size: six words in chunks of two, each starting
\* where the one before ended
C29_Witness ==
    /\ loop.pc = "returned"
    /\ chunkArgs.chunk_size = 2 /\ chunkArgs.overlap = 3
    /\ loop.chunks = <<"alpha beta", "gamma delta", "epsilon zeta">>

(***************************************************************************)
(* The pending creation of the chat page.                                  *)
(***************************************************************************)
\* C30: the page holds one pending creation at most.  Every response
\* NEEDS_MORE_INFO sets pending_create to what that response asks for, in
\* place of an earlier one; no other response to a prompt changes it; a
\* 'Submit details' creation clears it when it returns PASS and leaves it
\* as it was when it returns CONFLICT or FAIL; nothing else changes it.
C30_OnePendingCreate ==
    [][ /\ (lastRun'.kind = "prompt" /\ lastRun'.result = "NEEDS_MORE_INFO")
              => pending_create' = lastRun'.pending
        /\ (lastRun'.kind = "prompt" /\ lastRun'.result /= "NEEDS_MORE_INFO")
              => pending_create' = pending_create
        /\ (lastRun'.kind = "submit" /\ lastRun'.result = "PASS")
              => pending_create' = None
        /\ (lastRun'.kind = "submit" /\ lastRun'.result /= "PASS")
              => pending_create' = pending_create
        /\ lastRun'.kind = "edit" => pending_create' = pending_create
        /\ (pending_create' = None /\ pending_create /= None)
              => (lastRun'.kind = "submit" /\ lastRun'.result = "PASS") ]_vars

\* a second NEEDS_MORE_INFO came after a first: what is pending is what
\* the second asks for
C30_Witness ==
    /\ Len(messages) = 4
    /\ messages[2].result = "NEEDS_MORE_INFO" /\ messages[4].result = "NEEDS_MORE_INFO"
    /\ lastRun.kind = "prompt"
    /\ pending_create = lastRun.pending
    /\ Val(pending_create).missing_slots = <<"time">>

\* a submission met a conflict and the creation is still pending
C30_WitnessConflict ==
    /\ lastRun.kind = "submit" /\ lastRun.result = "CONFLICT"
    /\ ~IsNone(pending_create)
    /\ messages[Len(messages)].result = "CONFLICT"

\* the creation went through and nothing is pending
C30_WitnessCleared ==
    /\ lastRun.kind = "submit" /\ lastRun.result = "PASS"
    /\ pending_create = None
    /\ messages /= <<>>

====
